---- MODULE Spec2Model ----
(***************************************************************************)
(* The P2P shuffle runtime of one worker: the ShuffleWorkerPlugin registry *)
(* (distributed/shuffle/_worker_plugin.py) and the runs it routes to       *)
(* (DataFrameShuffleRun in _shuffle.py, ArrayRechunkRun in _rechunk.py).   *)
(*                                                                         *)
(* One action is one atomic step of the worker's event loop: a handler     *)
(* runs from its start, or from the await it was suspended on, up to its   *)
(* next await or its return.  The scheduler and the peers are the          *)
(* environment.  The ShuffleRun base class (_core.py) is modelled from the *)
(* specification's description of it.                                      *)
(***************************************************************************)
EXTENDS Integers, Sequences, FiniteSets, TLC

VARIABLES
    shuffles,   \* ShuffleWorkerPlugin.shuffles: ShuffleId -> run object (0: no entry)
    _runs,      \* ShuffleWorkerPlugin._runs: the run objects not yet closed and removed
    closed,     \* ShuffleWorkerPlugin.closed
    run,        \* the run objects ever created on the worker, in creation order
    tasks,      \* the handlers in flight, one per slot, each at its await
    sched,      \* the scheduler's current run_id per ShuffleId (0: unknown shuffle)
    teardown_pc,\* teardown: "idle", "waiting" (on _runs_cleanup_condition), "done"
    executor,   \* the offload thread pool: "up" or "shutdown"
    ops,        \* number of handler invocations and environment events so far
    last,       \* the outcome of the handler that returned or raised in the step just taken
    job,        \* the data of one shuffle in flight: inputs, shards sent, files, outputs
    limiters,   \* the resource limiters: bytes in use, and the bytes each run has buffered
    inbox       \* the shuffle_fail broadcasts: "none", "sent" to this worker, "delivered"

vars == <<shuffles, _runs, closed, run, tasks, sched, teardown_pc, executor, ops, last,
         job, limiters, inbox>>

----------------------------------------------------------------------------
(* Bounds of the model *)

MaxRunId == 2      \* the run_ids the scheduler hands out: 1..MaxRunId
MaxTasks == 2      \* handlers in flight at once
MaxOps == 3        \* handler invocations and shuffle_fail messages in one behaviour

----------------------------------------------------------------------------
(* The inputs *)

ShuffleIds == {"A", "B"}
RunIds == 1..MaxRunId
Slots == 1..MaxTasks
LocalAddress == "W0"

\* result["type"] of the scheduler's reply: "A" is a dataframe shuffle, "B" a rechunk
TypeOf(id) == IF id = "A" THEN "DATAFRAME" ELSE "ARRAY_RECHUNK"

\* Output partitions 0 and 1 are assigned to this worker, 2 to a peer.
OutParts == {0, 1, 2}
worker_for(j) == IF j = 2 THEN "W1" ELSE LocalAddress
LocalParts == {j \in OutParts : worker_for(j) = LocalAddress}

\* Input partitions (producer ids)
Pids == {0, 1}

\* A row of a shard: its destination partition, the input partition it comes
\* from and the run of the sender that serialized it.
Row(part, src, rid) == [part |-> part, src |-> src, rid |-> rid]

\* sizeof(d) of d = (producer_id, bytes): grows with the payload
sizeof(d) == 1 + Len(d[2])

None == "None"

\* job while no data is followed
NoJob == [kind |-> "none"]

\* ResourceLimiter(parse_bytes("100 MiB")) and ResourceLimiter(parse_bytes("1 GiB")),
\* in MiB
CommsCapacity == 100
DiskCapacity == 1024

\* The limiter objects: those of the plugin are <<"comms", 0>> and <<"disk", 0>>
Limiters == {<<k, o>> : k \in {"comms", "disk"}, o \in 0..2}

\* inbox while no shuffle_fail has been broadcast
NoMessages == [m \in {"A", "B"} \X (1..2) |-> "none"]

\* limiters after setup: nothing in use, no run has buffered anything
NoBytes == [in_use |-> [l \in Limiters |-> 0], held |-> <<>>]

----------------------------------------------------------------------------
(* Helpers *)

RECURSIVE Concat(_)
Concat(ss) == IF ss = <<>> THEN <<>> ELSE Head(ss) \o Concat(Tail(ss))

RECURSIVE SumOver(_, _)
SumOver(S, f) ==
    IF S = {} THEN 0
    ELSE LET x == CHOOSE y \in S : TRUE IN f[x] + SumOver(S \ {x}, f)

Range(s) == {s[i] : i \in 1..Len(s)}

----------------------------------------------------------------------------
(* The run object: ShuffleRun.__init__ as called by _create_shuffle_run *)

_create_shuffle_run(id, run_id) ==
    [ id |-> id, type |-> TypeOf(id), run_id |-> run_id,
      received |-> {}, total_recvd |-> 0,
      disk |-> [k \in LocalParts |-> <<>>],   \* DiskShardsBuffer: key -> appended rows
      comm |-> {},                            \* input partitions handed to the comm buffer
      transferred |-> FALSE, exception |-> None, closed |-> FALSE,
      close_task |-> "none",                  \* the background close task of this run
      n_close |-> 0,                          \* how often a close task was scheduled
      first |-> [p \in Pids |-> <<>>],        \* history: first payload delivered per producer
      again |-> {} ]                          \* history: how producers were delivered again

\* The scratch directory of a run below worker.local_directory:
\* shuffle-<id>-<run_id>
directory(r) == <<"shuffle", r.id, r.run_id>>

\* ShuffleRun.fail: latch the exception
fail(r, e) == IF r.exception = None THEN [r EXCEPT !.exception = e] ELSE r

\* ShuffleRun.raise_if_closed: the latched exception, else ShuffleClosedError
raise_if_closed(r) ==
    IF r.exception # None THEN r.exception
    ELSE IF r.closed THEN "closed"
    ELSE "ok"

\* worker._ongoing_background_tasks.call_soon(self._close_shuffle_run, shuffle)
call_soon_close(r) ==
    [r EXCEPT !.close_task = "scheduled", !.n_close = r.n_close + 1]

----------------------------------------------------------------------------
(* The plugin store handed through one atomic step *)

Store == [shuffles |-> shuffles, runs |-> _runs, run |-> run]

Idle == [op |-> "idle", pc |-> "idle", id |-> "-", rid |-> 0, obj |-> 0,
         reply |-> 0, part |-> 0, data |-> <<>>]

\* last when the step just taken completed no handler
NoEvent == [op |-> "none", id |-> "-", rid |-> 0, obj |-> 0, part |-> 0, res |-> "none"]

\* What a step of a handler comes to: the store after it, the task if it is
\* suspended again (res = "pending"), else its result.
Outcome(S, tk, res) == [S |-> S, tk |-> tk, res |-> res]

Commit(t, O) ==
    /\ shuffles' = O.S.shuffles
    /\ _runs' = O.S.runs
    /\ run' = O.S.run
    /\ tasks' = [tasks EXCEPT ![t] = IF O.res = "pending" THEN O.tk ELSE Idle]
    /\ last' = IF O.res = "pending" THEN NoEvent
               ELSE [op |-> O.tk.op, id |-> O.tk.id, rid |-> O.tk.rid,
                     obj |-> O.tk.obj, part |-> O.tk.part, res |-> O.res]

\* The slot a new handler takes
FreeSlot(t) == tasks[t].pc = "idle" /\ \A u \in Slots : u < t => tasks[u].pc # "idle"

----------------------------------------------------------------------------
(* Looking a run up: _refresh_shuffle, _get_shuffle_run, _get_or_create_shuffle *)

Found(err, obj, S) == [err |-> err, obj |-> obj, S |-> S]

\* _refresh_shuffle that replaces an older run without failing and closing it
_refresh_shuffle_replaces(S, id, reply) ==
    IF reply = 0 THEN Found("unknown", 0, S)
    ELSE IF closed THEN Found("closed", 0, S)
    ELSE LET existing == S.shuffles[id] IN
         IF existing # 0 /\ S.run[existing].run_id >= reply
         THEN Found("ok", existing, S)
         ELSE LET new == Len(S.run) + 1
              IN Found("ok", new,
                       [shuffles |-> [S.shuffles EXCEPT ![id] = new],
                        runs |-> S.runs \cup {new},
                        run |-> Append(S.run, _create_shuffle_run(id, reply))])

\* _refresh_shuffle that does not check closed after the scheduler's reply
_refresh_shuffle_ignores_closed(S, id, reply) ==
    IF reply = 0 THEN Found("unknown", 0, S)
    ELSE LET existing == S.shuffles[id] IN
         IF existing # 0 /\ S.run[existing].run_id >= reply
         THEN Found("ok", existing, S)
         ELSE LET rn == IF existing # 0
                        THEN [S.run EXCEPT
                                ![existing] = call_soon_close(fail(@, "superseded"))]
                        ELSE S.run
                  new == Len(rn) + 1
              IN Found("ok", new,
                       [shuffles |-> [S.shuffles EXCEPT ![id] = new],
                        runs |-> S.runs \cup {new},
                        run |-> Append(rn, _create_shuffle_run(id, reply))])

\* _refresh_shuffle that takes a reply with status error for a run
_refresh_shuffle_creates_unknown(S, id, reply) ==
    IF closed THEN Found("closed", 0, S)
    ELSE LET new == Len(S.run) + 1
         IN Found("ok", new,
                  [shuffles |-> [S.shuffles EXCEPT ![id] = new],
                   runs |-> S.runs \cup {new},
                   run |-> Append(S.run, _create_shuffle_run(id, reply))])

\* _refresh_shuffle from the scheduler's reply on (reply = 0: status "error"):
\* an existing run that is at least as new is kept, an older one is removed,
\* failed and scheduled for close, and the new run is created and registered.
_refresh_shuffle(S, id, reply) ==
    IF reply = 0 THEN Found("unknown", 0, S)
    ELSE IF closed THEN Found("closed", 0, S)
    ELSE LET existing == S.shuffles[id] IN
         IF existing # 0 /\ S.run[existing].run_id >= reply
         THEN Found("ok", existing, S)
         ELSE LET rn == IF existing # 0
                        THEN [S.run EXCEPT
                                ![existing] = call_soon_close(fail(@, "superseded"))]
                        ELSE S.run
                  new == Len(rn) + 1
              IN Found("ok", new,
                       [shuffles |-> [S.shuffles EXCEPT ![id] = new],
                        runs |-> S.runs \cup {new},
                        run |-> Append(rn, _create_shuffle_run(id, reply))])

\* _get_shuffle_run: whether the registry entry is missing or older than asked for
needs_refresh(id, rid) == shuffles[id] = 0 \/ run[shuffles[id]].run_id < rid

\* _get_shuffle_run that serves a request for an older run_id from the newer run
_get_shuffle_run_check_serves_stale(r, rid) ==
    IF r.run_id < rid THEN "invalid"
    ELSE IF r.exception # None THEN r.exception
    ELSE "ok"

\* _get_shuffle_run after the lookup: the stale / invalid / latched-exception checks
_get_shuffle_run_check(r, rid) ==
    IF r.run_id > rid THEN "stale"
    ELSE IF r.run_id < rid THEN "invalid"
    ELSE IF r.exception # None THEN r.exception
    ELSE "ok"

\* _get_or_create_shuffle after the lookup
_get_or_create_shuffle_check(r) ==
    IF closed THEN "closed"
    ELSE IF r.exception # None THEN r.exception
    ELSE "ok"

----------------------------------------------------------------------------
(* The run: receive *)

\* _receive without the membership test
_receive_accepts_all(d, received) == TRUE

\* _receive: the membership test that lets a shard through
_receive_accepts(d, received) == d[1] \notin received

\* _receive whose loop tests `received` but leaves the insertion for later
_receive_filter_test_only(data, acc) ==
    [received |-> acc.received,
     total_recvd |-> acc.total_recvd,
     filtered |-> acc.filtered
                    \o [i \in 1..Len(SelectSeq(data, LAMBDA d : d[1] \notin acc.received)) |->
                          SelectSeq(data, LAMBDA d : d[1] \notin acc.received)[i][2]]]

\* _receive: the loop over data; acc is (received, total_recvd, filtered)
RECURSIVE _receive_filter(_, _)
_receive_filter(data, acc) ==
    IF data = <<>> THEN acc
    ELSE LET d == Head(data) IN
         _receive_filter(Tail(data),
            IF _receive_accepts(d, acc.received)
            THEN [received |-> acc.received \cup {d[1]},
                  total_recvd |-> acc.total_recvd + sizeof(d),
                  filtered |-> Append(acc.filtered, d[2])]
            ELSE acc)

\* History: the first payload ever delivered for each producer id
RECURSIVE FirstDelivered(_, _)
FirstDelivered(data, first) ==
    IF data = <<>> THEN first
    ELSE LET d == Head(data) IN
         FirstDelivered(Tail(data),
                        IF first[d[1]] = <<>> THEN [first EXCEPT ![d[1]] = d[2]] ELSE first)

\* History: whether a producer id was delivered again, with the "same" payload
\* as its first or a "different" one
RECURSIVE DeliveredAgain(_, _, _)
DeliveredAgain(data, first, again) ==
    IF data = <<>> THEN again
    ELSE LET d == Head(data) IN
         DeliveredAgain(Tail(data),
                        IF first[d[1]] = <<>> THEN [first EXCEPT ![d[1]] = d[2]] ELSE first,
                        IF first[d[1]] = <<>> THEN again
                        ELSE again \cup {IF first[d[1]] = d[2] THEN "same" ELSE "different"})

\* _receive: the except clause latches whatever was raised
_receive_except(r, e) == [r EXCEPT !.exception = e]

\* _repartition_buffers / split_by_partition (_repartition_shards for arrays):
\* the rows of all buffers, grouped by output partition
_repartition_buffers(filtered) ==
    [k \in LocalParts |-> SelectSeq(Concat(filtered), LAMBDA row : row.part = k)]

\* DiskShardsBuffer.write: append each group under its key
_write_to_disk(r, groups) ==
    [r EXCEPT !.disk = [k \in DOMAIN r.disk |-> r.disk[k] \o groups[k]]]

\* _receive up to its first await (the offload)
_receive(tk, S) ==
    LET r == S.run[tk.obj]
        e == raise_if_closed(r)
    IN IF e # "ok" THEN Outcome(S, tk, e)
       ELSE LET acc == _receive_filter(tk.data, [received |-> r.received,
                                                 total_recvd |-> r.total_recvd,
                                                 filtered |-> <<>>])
                r1 == [r EXCEPT !.received = acc.received,
                                !.total_recvd = acc.total_recvd,
                                !.first = FirstDelivered(tk.data, r.first),
                                !.again = DeliveredAgain(tk.data, r.first, r.again)]
                S1 == [S EXCEPT !.run[tk.obj] = r1]
            IN IF acc.filtered = <<>> THEN Outcome(S1, [tk EXCEPT !.data = <<>>], "ok")
               ELSE Outcome(S1, [tk EXCEPT !.pc = "offload", !.data = acc.filtered],
                            "pending")

----------------------------------------------------------------------------
(* The run: add_partition, inputs_done, barrier, get_output_partition *)

\* add_partition without the check of transferred
add_partition_run_unchecked(tk, S) ==
    LET r == S.run[tk.obj]
        e == raise_if_closed(r)
    IN IF e # "ok" THEN Outcome(S, tk, e)
       ELSE Outcome(S, [tk EXCEPT !.pc = "offload"], "pending")

\* add_partition up to its first await (the offload of the split)
add_partition_run(tk, S) ==
    LET r == S.run[tk.obj]
        e == raise_if_closed(r)
    IN IF e # "ok" THEN Outcome(S, tk, e)
       ELSE IF r.transferred THEN Outcome(S, tk, "no_more")
       ELSE Outcome(S, [tk EXCEPT !.pc = "offload"], "pending")

\* ShuffleRun.inputs_done up to its first await (the flush of the comm buffer)
inputs_done(tk, S) ==
    LET e == raise_if_closed(S.run[tk.obj])
    IN IF e # "ok" THEN Outcome(S, tk, e)
       ELSE Outcome(S, [tk EXCEPT !.pc = "flush"], "pending")

\* ShuffleRun.barrier up to its first await (the broadcast)
barrier_run(tk, S) ==
    LET e == raise_if_closed(S.run[tk.obj])
    IN IF e # "ok" THEN Outcome(S, tk, e)
       ELSE Outcome(S, [tk EXCEPT !.pc = "broadcast"], "pending")

\* _get_assigned_worker
_get_assigned_worker(r, id) == worker_for(id)

\* ShuffleRun._ensure_output_worker: Reschedule unless this worker owns the output
_ensure_output_worker(r, i) ==
    IF _get_assigned_worker(r, i) # LocalAddress THEN "reschedule" ELSE "ok"

\* get_output_partition without the assertion on transferred
get_output_partition_run_no_assert(tk, S) ==
    LET r == S.run[tk.obj]
        e == raise_if_closed(r)
    IN IF e # "ok" THEN Outcome(S, tk, e)
       ELSE IF _ensure_output_worker(r, tk.part) # "ok"
            THEN Outcome(S, tk, _ensure_output_worker(r, tk.part))
       ELSE Outcome(S, [tk EXCEPT !.pc = "flush_receive"], "pending")

\* get_output_partition without the call of _ensure_output_worker
get_output_partition_run_anywhere(tk, S) ==
    LET r == S.run[tk.obj]
        e == raise_if_closed(r)
    IN IF e # "ok" THEN Outcome(S, tk, e)
       ELSE IF ~r.transferred THEN Outcome(S, tk, "assert")
       ELSE Outcome(S, [tk EXCEPT !.pc = "flush_receive"], "pending")

\* get_output_partition up to its first await (flush_receive)
get_output_partition_run(tk, S) ==
    LET r == S.run[tk.obj]
        e == raise_if_closed(r)
    IN IF e # "ok" THEN Outcome(S, tk, e)
       ELSE IF ~r.transferred THEN Outcome(S, tk, "assert")
       ELSE IF _ensure_output_worker(r, tk.part) # "ok"
            THEN Outcome(S, tk, _ensure_output_worker(r, tk.part))
       ELSE Outcome(S, [tk EXCEPT !.pc = "flush_receive"], "pending")

\* DiskShardsBuffer.read: what was appended under the key (<<>>: the key is absent)
_read_from_disk(r, part) == IF part \in DOMAIN r.disk THEN r.disk[part] ELSE <<>>

----------------------------------------------------------------------------
(* From the plugin's lookup into the run *)

\* What the handler does with the run it looked up, up to its next await.
\* add_partition and get_output_partition return to the worker thread, which
\* calls the run's method in a second sync().
call_run(tk, S) ==
    CASE tk.op = "shuffle_receive" -> _receive(tk, S)
      [] tk.op = "shuffle_inputs_done" -> inputs_done(tk, S)
      [] tk.op = "barrier" -> barrier_run(tk, S)
      [] OTHER -> Outcome(S, [tk EXCEPT !.pc = "have_run"], "pending")

\* _get_shuffle_run / _get_or_create_shuffle from the looked-up run on
after_lookup(tk, L) ==
    IF L.err # "ok" THEN Outcome(L.S, tk, L.err)
    ELSE LET e == IF tk.op = "add_partition"
                  THEN _get_or_create_shuffle_check(L.S.run[L.obj])
                  ELSE _get_shuffle_run_check(L.S.run[L.obj], tk.rid)
         IN IF e # "ok" THEN Outcome(L.S, tk, e)
            ELSE call_run([tk EXCEPT !.obj = L.obj], L.S)

----------------------------------------------------------------------------
(* Handlers: their first step *)

NewTask(op, id, rid, part, data) ==
    [Idle EXCEPT !.op = op, !.id = id, !.rid = rid, !.part = part, !.data = data]

PluginFrame == UNCHANGED <<closed, sched, teardown_pc, executor, job, limiters, inbox>>

\* A handler from its call to its first await or its return: on a registry
\* miss it awaits the scheduler, else it goes on into the run.
start(t, tk, miss) ==
    /\ FreeSlot(t)
    /\ ops' = ops + 1
    /\ PluginFrame
    /\ IF miss
       THEN /\ tasks' = [tasks EXCEPT ![t] = [tk EXCEPT !.pc = "rpc"]]
            /\ UNCHANGED <<shuffles, _runs, run>>
            /\ last' = NoEvent
       ELSE Commit(t, after_lookup(tk, Found("ok", shuffles[tk.id], Store)))

\* shuffle_receive(shuffle_id, run_id, data)
shuffle_receive(t, id, rid, data) ==
    start(t, NewTask("shuffle_receive", id, rid, 0, data), needs_refresh(id, rid))

\* shuffle_inputs_done(shuffle_id, run_id)
shuffle_inputs_done(t, id, rid) ==
    start(t, NewTask("shuffle_inputs_done", id, rid, 0, <<>>), needs_refresh(id, rid))

\* add_partition(data, partition_id, shuffle_id, ...): get_or_create_shuffle
add_partition(t, id, part) ==
    start(t, NewTask("add_partition", id, 0, part, <<>>), shuffles[id] = 0)

\* _barrier without the assertion that all run_ids are the same
_barrier_no_assert(t, id, run_ids) ==
    start(t, NewTask("barrier", id, run_ids[1], 0, <<>>), needs_refresh(id, run_ids[1]))

\* _barrier(shuffle_id, run_ids)
_barrier(t, id, run_ids) ==
    IF \A i \in 1..Len(run_ids) : run_ids[i] = run_ids[1]
    THEN start(t, NewTask("barrier", id, run_ids[1], 0, <<>>),
               needs_refresh(id, run_ids[1]))
    ELSE /\ FreeSlot(t)
         /\ ops' = ops + 1
         /\ PluginFrame
         /\ Commit(t, Outcome(Store, NewTask("barrier", id, run_ids[1], 0, <<>>),
                              "assert"))

\* get_output_partition(shuffle_id, run_id, partition_id): get_shuffle_run
get_output_partition(t, id, rid, part) ==
    start(t, NewTask("get_output_partition", id, rid, part, <<>>),
          needs_refresh(id, rid))

----------------------------------------------------------------------------
(* The scheduler *)

\* The scheduler answers shuffle_get (status error for a shuffle it does not
\* know) or shuffle_get_or_create (which creates it) with its current run_id.
scheduler_handle(t) ==
    /\ tasks[t].pc = "rpc"
    /\ LET id == tasks[t].id
           rid == IF tasks[t].op = "add_partition" /\ sched[id] = 0 THEN 1
                  ELSE sched[id]
       IN /\ sched' = [sched EXCEPT ![id] = rid]
          /\ tasks' = [tasks EXCEPT ![t].pc = "reply", ![t].reply = rid]
    /\ UNCHANGED <<shuffles, _runs, closed, run, teardown_pc, executor, ops, job, limiters, inbox>>
    /\ last' = NoEvent

\* The scheduler restarts a shuffle (a worker was lost): a new run_id
scheduler_restart(id) ==
    /\ sched[id] \in 1..(MaxRunId - 1)
    /\ sched' = [sched EXCEPT ![id] = @ + 1]
    /\ UNCHANGED <<shuffles, _runs, closed, run, tasks, teardown_pc, executor, ops, job, limiters, inbox>>
    /\ last' = NoEvent

\* _refresh_shuffle resumes with the scheduler's reply, and its caller goes on
_refresh_shuffle_resume(t) ==
    /\ tasks[t].pc = "reply"
    /\ PluginFrame
    /\ UNCHANGED ops
    /\ Commit(t, after_lookup(tasks[t],
                              _refresh_shuffle(Store, tasks[t].id, tasks[t].reply)))

----------------------------------------------------------------------------
(* Handlers: their later steps *)

WithRun(o, r) == [Store EXCEPT !.run[o] = r]

Step(t, O) == PluginFrame /\ UNCHANGED ops /\ Commit(t, O)

At(t, op, pc) == tasks[t].op = op /\ tasks[t].pc = pc

\* Whether a write of run o to its disk buffer is under way
disk_write_pending(o) ==
    \E u \in Slots : tasks[u].obj = o /\ tasks[u].op = "shuffle_receive"
                     /\ tasks[u].pc = "disk"

\* _receive: the offload of _repartition_buffers returns or raises; then
\* _write_to_disk is called and awaits the disk buffer
_receive_offload(t, ok) ==
    /\ At(t, "shuffle_receive", "offload")
    /\ LET tk == tasks[t]
           r == run[tk.obj]
           e == IF ok THEN raise_if_closed(r) ELSE "offload_error"
       IN Step(t, IF e # "ok" THEN Outcome(WithRun(tk.obj, _receive_except(r, e)), tk, e)
                  ELSE Outcome(Store, [tk EXCEPT !.pc = "disk"], "pending"))

\* _receive: the write to the disk buffer completes or raises
_receive_disk(t, ok) ==
    /\ At(t, "shuffle_receive", "disk")
    /\ LET tk == tasks[t]
           r == run[tk.obj]
       IN Step(t, IF ~ok
                  THEN Outcome(WithRun(tk.obj, _receive_except(r, "disk_error")), tk,
                               "disk_error")
                  ELSE Outcome(WithRun(tk.obj,
                                       _write_to_disk(r, _repartition_buffers(tk.data))),
                               [tk EXCEPT !.data = <<>>], "ok"))

\* add_partition: the worker thread's second sync(), which calls the run
add_partition_call(t) ==
    /\ At(t, "add_partition", "have_run")
    /\ Step(t, add_partition_run(tasks[t], Store))

\* add_partition: the offload of the split returns or raises; then
\* _write_to_comm is called and awaits the comm buffer
add_partition_offload(t, ok) ==
    /\ At(t, "add_partition", "offload")
    /\ LET tk == tasks[t]
           e == IF ok THEN raise_if_closed(run[tk.obj]) ELSE "offload_error"
       IN Step(t, IF e # "ok" THEN Outcome(Store, tk, e)
                  ELSE Outcome(Store, [tk EXCEPT !.pc = "comm"], "pending"))

\* add_partition: the comm buffer took the shards; the run_id is returned
add_partition_comm(t) ==
    /\ At(t, "add_partition", "comm")
    /\ LET tk == tasks[t]
           r == run[tk.obj]
       IN Step(t, Outcome(WithRun(tk.obj, [r EXCEPT !.comm = @ \cup {tk.part}]), tk, "ok"))

\* inputs_done: the comm buffer is flushed (or a send has failed, which is
\* latched); then the barrier is crossed locally
inputs_done_flush(t, ok) ==
    /\ At(t, "shuffle_inputs_done", "flush")
    /\ LET tk == tasks[t]
           r == run[tk.obj]
           e == raise_if_closed(r)
       IN Step(t, IF e # "ok" THEN Outcome(Store, tk, e)
                  ELSE IF ~ok THEN Outcome(WithRun(tk.obj, fail(r, "comm_error")), tk,
                                           "comm_error")
                  ELSE Outcome(WithRun(tk.obj, [r EXCEPT !.transferred = TRUE]), tk, "ok"))

\* barrier: the broadcast of shuffle_inputs_done is acknowledged
barrier_broadcast(t) ==
    /\ At(t, "barrier", "broadcast")
    /\ Step(t, Outcome(Store, tasks[t], "ok"))

\* get_output_partition: the worker thread's second sync(), which calls the run
get_output_partition_call(t) ==
    /\ At(t, "get_output_partition", "have_run")
    /\ Step(t, get_output_partition_run(tasks[t], Store))

\* get_output_partition that lets the KeyError of an absent key through for a
\* dataframe as well
get_output_partition_read_raises(t) ==
    /\ At(t, "get_output_partition", "flush_receive")
    /\ ~disk_write_pending(tasks[t].obj)
    /\ LET tk == tasks[t]
           r == run[tk.obj]
           e == raise_if_closed(r)
           data == _read_from_disk(r, tk.part)
       IN Step(t, IF e # "ok" THEN Outcome(Store, tk, e)
                  ELSE IF data = <<>> THEN Outcome(Store, tk, "keyerror")
                  ELSE Outcome(Store, [tk EXCEPT !.pc = "convert", !.data = <<data>>],
                               "pending"))

\* get_output_partition: flush_receive returns; the partition is read from
\* disk and its conversion offloaded (an absent key: an empty dataframe, or
\* the KeyError for an array)
get_output_partition_read(t) ==
    /\ At(t, "get_output_partition", "flush_receive")
    /\ ~disk_write_pending(tasks[t].obj)
    /\ LET tk == tasks[t]
           r == run[tk.obj]
           e == raise_if_closed(r)
           data == _read_from_disk(r, tk.part)
       IN Step(t, IF e # "ok" THEN Outcome(Store, tk, e)
                  ELSE IF data = <<>>
                       THEN Outcome(Store, tk, IF r.type = "DATAFRAME" THEN "ok"
                                               ELSE "keyerror")
                  ELSE Outcome(Store, [tk EXCEPT !.pc = "convert", !.data = <<data>>],
                               "pending"))

\* get_output_partition: the offloaded conversion returns or raises
get_output_partition_convert(t, ok) ==
    /\ At(t, "get_output_partition", "convert")
    /\ Step(t, Outcome(Store, [tasks[t] EXCEPT !.data = <<>>],
                       IF ok THEN "ok" ELSE "offload_error"))

----------------------------------------------------------------------------
(* shuffle_fail, the close of a run, teardown *)

Event(op, id, rid, obj, res) ==
    [op |-> op, id |-> id, rid |-> rid, obj |-> obj, part |-> 0, res |-> res]

\* shuffle_fail that does not compare the run_id
shuffle_fail_any_run(id, run_id) ==
    /\ ops' = ops + 1
    /\ LET shuffle == shuffles[id] IN
       IF shuffle = 0
       THEN /\ UNCHANGED <<shuffles, run>>
            /\ last' = Event("shuffle_fail", id, run_id, 0, "ignored")
       ELSE /\ shuffles' = [shuffles EXCEPT ![id] = 0]
            /\ run' = [run EXCEPT ![shuffle] = call_soon_close(fail(@, "failed"))]
            /\ last' = Event("shuffle_fail", id, run_id, shuffle, "failed")
    /\ UNCHANGED <<_runs, closed, tasks, sched, teardown_pc, executor, job, limiters>>

\* shuffle_fail that latches the failure but leaves the run in the registry
shuffle_fail_keeps_run(id, run_id) ==
    /\ ops' = ops + 1
    /\ LET shuffle == shuffles[id] IN
       IF shuffle = 0 \/ run[shuffle].run_id # run_id
       THEN /\ UNCHANGED <<shuffles, run>>
            /\ last' = Event("shuffle_fail", id, run_id, 0, "ignored")
       ELSE /\ UNCHANGED shuffles
            /\ run' = [run EXCEPT ![shuffle] = call_soon_close(fail(@, "failed"))]
            /\ last' = Event("shuffle_fail", id, run_id, shuffle, "failed")
    /\ UNCHANGED <<_runs, closed, tasks, sched, teardown_pc, executor, job, limiters>>

\* shuffle_fail that fails every registered run
shuffle_fail_all(id, run_id) ==
    /\ ops' = ops + 1
    /\ LET shuffle == shuffles[id] IN
       IF shuffle = 0 \/ run[shuffle].run_id # run_id
       THEN /\ UNCHANGED <<shuffles, run>>
            /\ last' = Event("shuffle_fail", id, run_id, 0, "ignored")
       ELSE /\ shuffles' = [i \in ShuffleIds |-> 0]
            /\ run' = [o \in DOMAIN run |->
                         IF \E i \in ShuffleIds : shuffles[i] = o
                         THEN call_soon_close(fail(run[o], "failed")) ELSE run[o]]
            /\ last' = Event("shuffle_fail", id, run_id, shuffle, "failed")
    /\ UNCHANGED <<_runs, closed, tasks, sched, teardown_pc, executor, job, limiters>>

\* shuffle_fail(shuffle_id, run_id, message): synchronous (what becomes of the
\* message that brought it, inbox, is its sender's part of the step)
shuffle_fail(id, run_id) ==
    /\ ops' = ops + 1
    /\ LET shuffle == shuffles[id] IN
       IF shuffle = 0 \/ run[shuffle].run_id # run_id
       THEN /\ UNCHANGED <<shuffles, run>>
            /\ last' = Event("shuffle_fail", id, run_id, 0, "ignored")
       ELSE /\ shuffles' = [shuffles EXCEPT ![id] = 0]
            /\ run' = [run EXCEPT ![shuffle] = call_soon_close(fail(@, "failed"))]
            /\ last' = Event("shuffle_fail", id, run_id, shuffle, "failed")
    /\ UNCHANGED <<_runs, closed, tasks, sched, teardown_pc, executor, job, limiters>>

\* _close_shuffle_run: shuffle.close() starts: the run is marked closed and
\* its buffers are being closed
close_start(o) ==
    /\ run[o].close_task = "scheduled"
    /\ run' = [run EXCEPT ![o].closed = TRUE, ![o].close_task = "closing"]
    /\ UNCHANGED <<shuffles, _runs, closed, tasks, sched, teardown_pc, executor, ops, job, limiters, inbox>>
    /\ last' = NoEvent

\* _close_shuffle_run that does not remove the run from _runs
close_finish_keeps_run(o) ==
    /\ run[o].close_task = "closing"
    /\ ~disk_write_pending(o)
    /\ run' = [run EXCEPT ![o].disk = [k \in DOMAIN @ |-> <<>>],
                          ![o].close_task = "done"]
    /\ UNCHANGED <<shuffles, _runs, closed, tasks, sched, teardown_pc, executor, ops, job, limiters, inbox>>
    /\ last' = NoEvent

\* _close_shuffle_run: shuffle.close() returns once the buffers are drained
\* and the scratch directory is deleted; the run leaves _runs
close_finish(o) ==
    /\ run[o].close_task = "closing"
    /\ ~disk_write_pending(o)
    /\ run' = [run EXCEPT ![o].disk = [k \in DOMAIN @ |-> <<>>],
                          ![o].close_task = IF o \in _runs THEN "done" ELSE "keyerror"]
    /\ _runs' = _runs \ {o}
    /\ UNCHANGED <<shuffles, closed, tasks, sched, teardown_pc, executor, ops, job, limiters, inbox>>
    /\ last' = NoEvent

\* teardown that schedules the close of the registered runs without taking
\* them out of the registry
teardown_keeps_registry ==
    /\ teardown_pc = "idle"
    /\ ~closed
    /\ closed' = TRUE
    /\ run' = [o \in DOMAIN run |->
                 IF \E id \in ShuffleIds : shuffles[id] = o
                 THEN call_soon_close(run[o]) ELSE run[o]]
    /\ teardown_pc' = IF _runs = {} THEN "done" ELSE "waiting"
    /\ executor' = IF _runs = {} THEN "shutdown" ELSE executor
    /\ UNCHANGED <<shuffles, _runs, tasks, sched, ops, job, limiters, inbox>>
    /\ last' = NoEvent

\* teardown up to the wait on _runs_cleanup_condition (which it does not
\* wait on when _runs is empty already)
teardown ==
    /\ teardown_pc = "idle"
    /\ ~closed
    /\ closed' = TRUE
    /\ shuffles' = [id \in ShuffleIds |-> 0]
    /\ run' = [o \in DOMAIN run |->
                 IF \E id \in ShuffleIds : shuffles[id] = o
                 THEN call_soon_close(run[o]) ELSE run[o]]
    /\ teardown_pc' = IF _runs = {} THEN "done" ELSE "waiting"
    /\ executor' = IF _runs = {} THEN "shutdown" ELSE executor
    /\ UNCHANGED <<_runs, tasks, sched, ops, job, limiters, inbox>>
    /\ last' = NoEvent

\* teardown that does not wait for _runs to drain
teardown_finish_no_wait ==
    /\ teardown_pc = "waiting"
    /\ teardown_pc' = "done"
    /\ executor' = "shutdown"
    /\ UNCHANGED <<shuffles, _runs, closed, run, tasks, sched, ops, job, limiters, inbox>>
    /\ last' = NoEvent

\* teardown: _runs has drained; the thread pool is shut down
teardown_finish ==
    /\ teardown_pc = "waiting"
    /\ _runs = {}
    /\ teardown_pc' = "done"
    /\ executor' = "shutdown"
    /\ UNCHANGED <<shuffles, _runs, closed, run, tasks, sched, ops, job, limiters, inbox>>
    /\ last' = NoEvent

----------------------------------------------------------------------------
(* The worker *)

Init ==
    /\ shuffles = [id \in ShuffleIds |-> 0]
    /\ _runs = {}
    /\ closed = FALSE
    /\ run = <<>>
    /\ tasks = [t \in Slots |-> Idle]
    /\ sched \in {s \in [ShuffleIds -> {0, 1}] : s["B"] = 0}
    /\ teardown_pc = "idle"
    /\ executor = "up"
    /\ ops = 0
    /\ last = NoEvent
    /\ job = NoJob
    /\ limiters = NoBytes
    /\ inbox = NoMessages

----------------------------------------------------------------------------
(* The registry: the runs of one shuffle are created, superseded, failed and
   closed while shards are received and partitions added *)

\* What a peer of run rid sends in one shuffle_receive
Batch(rid) == { <<(<<0, <<Row(0, 0, rid)>> >>)>> }

\* The background close tasks
Closing == \E o \in DOMAIN run : close_start(o) \/ close_finish(o)

\* The scheduler's side of a lookup, and the handler going on from its reply
Lookup ==
    \/ \E t \in Slots : scheduler_handle(t)
    \/ \E t \in Slots : _refresh_shuffle_resume(t)

\* The steps shuffle_receive and add_partition resume with
Resume ==
    \/ \E t \in Slots, ok \in BOOLEAN :
          \/ _receive_offload(t, ok)
          \/ _receive_disk(t, ok)
          \/ add_partition_offload(t, ok)
    \/ \E t \in Slots :
          \/ add_partition_call(t)
          \/ add_partition_comm(t)

Next ==
    \/ /\ ops < MaxOps
       /\ \/ \E t \in Slots, rid \in RunIds :
                \E data \in Batch(rid) : shuffle_receive(t, "A", rid, data)
          \/ \E t \in Slots : add_partition(t, "A", 0)
          \/ \E rid \in RunIds :
                rid <= sched["A"] /\ shuffle_fail("A", rid) /\ UNCHANGED inbox
    \/ scheduler_restart("A")
    \/ teardown
    \/ teardown_finish
    \/ Lookup
    \/ Resume
    \/ Closing

Spec == Init /\ [][Next]_vars

\* The event loop runs every scheduled background task and every resumed
\* handler; the disk buffer completes (or fails) every write.
DiskWrite == \E t \in Slots, ok \in BOOLEAN : _receive_disk(t, ok)

FairSpec ==
    Spec /\ WF_vars(Closing) /\ WF_vars(DiskWrite) /\ WF_vars(teardown_finish)

----------------------------------------------------------------------------
(* One run: shards are received, partitions added, the barrier crossed and
   the output partitions read, of a dataframe shuffle or of a rechunk *)

MaxBatch == 2      \* shards in one shuffle_receive

\* The shards the peers of run rid send: input partition 0 with either of two
\* payloads, input partition 1
Shards(rid) ==
    { <<0, <<Row(0, 0, rid)>> >>,
      <<0, <<Row(1, 0, rid), Row(0, 0, rid)>> >>,
      <<1, <<Row(1, 1, rid)>> >> }

Batches(rid) == UNION { [1..n -> Shards(rid)] : n \in 1..MaxBatch }

RunInit ==
    /\ shuffles = [id \in ShuffleIds |-> 0]
    /\ _runs = {}
    /\ closed = FALSE
    /\ run = <<>>
    /\ tasks = [t \in Slots |-> Idle]
    /\ sched \in {s \in [ShuffleIds -> {0, 1}] : \E id \in ShuffleIds : s[id] = 0 /\ s # [i \in ShuffleIds |-> 0]}
    /\ teardown_pc = "idle"
    /\ executor = "up"
    /\ ops = 0
    /\ last = NoEvent
    /\ job = NoJob
    /\ limiters = NoBytes
    /\ inbox = NoMessages

\* The steps shuffle_inputs_done, barrier and get_output_partition resume with
RunResume ==
    \/ \E t \in Slots, ok \in BOOLEAN :
          \/ inputs_done_flush(t, ok)
          \/ get_output_partition_convert(t, ok)
    \/ \E t \in Slots :
          \/ barrier_broadcast(t)
          \/ get_output_partition_call(t)
          \/ get_output_partition_read(t)

RunNext ==
    \/ /\ ops < MaxOps
       /\ \E t \in Slots, id \in ShuffleIds :
            /\ sched[id] = 1
            /\ \/ \E data \in Batches(1) : shuffle_receive(t, id, 1, data)
               \/ shuffle_inputs_done(t, id, 1)
               \/ add_partition(t, id, 0)
               \/ \E run_ids \in {<<1>>, <<1, 2>>} : _barrier(t, id, run_ids)
               \/ \E part \in OutParts : get_output_partition(t, id, 1, part)
               \/ shuffle_fail(id, 1) /\ UNCHANGED inbox
    \/ Lookup
    \/ Resume
    \/ RunResume
    \/ Closing

RunSpec == RunInit /\ [][RunNext]_vars

----------------------------------------------------------------------------
(* Two shuffles on one worker: one is failed, superseded or fails on its own
   while partitions are added to either *)

BothInit ==
    /\ shuffles = [id \in ShuffleIds |-> 0]
    /\ _runs = {}
    /\ closed = FALSE
    /\ run = <<>>
    /\ tasks = [t \in Slots |-> Idle]
    /\ sched = [id \in ShuffleIds |-> 1]
    /\ teardown_pc = "idle"
    /\ executor = "up"
    /\ ops = 0
    /\ last = NoEvent
    /\ job = NoJob
    /\ limiters = NoBytes
    /\ inbox = NoMessages

BothNext ==
    \/ /\ ops < MaxOps
       /\ \E id \in ShuffleIds :
            \/ \E t \in Slots : add_partition(t, id, 0)
            \/ \E t \in Slots :
                  shuffle_receive(t, id, sched[id], <<(<<0, <<Row(0, 0, sched[id])>> >>)>>)
            \/ shuffle_fail(id, sched[id]) /\ UNCHANGED inbox
    \/ scheduler_restart("A")
    \/ Lookup
    \/ Resume
    \/ Closing

BothSpec == BothInit /\ [][BothNext]_vars

----------------------------------------------------------------------------
(* The tasks of the compute engine: transfer, barrier and unpack call the
   plugin from a worker thread and turn what it raises into the task's
   outcome, "Reschedule" or "RuntimeError" *)

\* shuffle_transfer: ShuffleClosedError is rescheduled, any other exception
\* is wrapped in a RuntimeError
shuffle_transfer(res) ==
    IF res = "ok" THEN "ok"
    ELSE IF res = "closed" THEN "Reschedule"
    ELSE "RuntimeError"

\* shuffle_unpack: Reschedule is passed on, ShuffleClosedError is rescheduled
shuffle_unpack(res) ==
    IF res = "ok" THEN "ok"
    ELSE IF res = "reschedule" THEN "Reschedule"
    ELSE IF res = "closed" THEN "Reschedule"
    ELSE "RuntimeError"

\* shuffle_barrier (the barrier task of either flavour): every exception is
\* wrapped in a RuntimeError
shuffle_barrier(res) ==
    IF res = "ok" THEN "ok" ELSE "RuntimeError"

\* rechunk_transfer: every exception is wrapped in a RuntimeError
rechunk_transfer(res) ==
    IF res = "ok" THEN "ok" ELSE "RuntimeError"

\* rechunk_unpack: Reschedule is passed on, every other exception is wrapped
rechunk_unpack(res) ==
    IF res = "ok" THEN "ok"
    ELSE IF res = "reschedule" THEN "Reschedule"
    ELSE "RuntimeError"

\* The plugin calls the worker thread makes for a task
TaskOps == {"add_partition", "barrier", "get_output_partition"}

\* The outcome of the task whose plugin call completed as event e
task_outcome(e) ==
    CASE e.op = "add_partition" ->
            IF TypeOf(e.id) = "DATAFRAME" THEN shuffle_transfer(e.res)
            ELSE rechunk_transfer(e.res)
      [] e.op = "barrier" -> shuffle_barrier(e.res)
      [] e.op = "get_output_partition" ->
            IF TypeOf(e.id) = "DATAFRAME" THEN shuffle_unpack(e.res)
            ELSE rechunk_unpack(e.res)
      [] OTHER -> "none"

\* The tasks of one shuffle (dataframe or rechunk) run on a worker that is
\* torn down at any moment
TaskResume ==
    \/ \E t \in Slots, ok \in BOOLEAN :
          \/ add_partition_offload(t, ok)
          \/ inputs_done_flush(t, ok)
    \/ \E t \in Slots :
          \/ add_partition_call(t)
          \/ add_partition_comm(t)
          \/ barrier_broadcast(t)
          \/ get_output_partition_call(t)
          \/ get_output_partition_read(t)

TaskNext ==
    \/ /\ ops < MaxOps
       /\ \E t \in Slots, id \in ShuffleIds :
            /\ sched[id] = 1
            /\ \/ add_partition(t, id, 0)
               \/ shuffle_inputs_done(t, id, 1)
               \/ _barrier(t, id, <<1>>)
               \/ \E part \in {0, 2} : get_output_partition(t, id, 1, part)
    \/ teardown
    \/ teardown_finish
    \/ Lookup
    \/ TaskResume
    \/ Closing

TaskSpec == RunInit /\ [][TaskNext]_vars

----------------------------------------------------------------------------
(* The data of a rechunk: the bricks of an n-dimensional array are split,
   sent to the owners of the new bricks, written to disk and put together.
   Indices and coordinates are tuples counted from 0, as in the source. *)

MaxLen == 4        \* length of a one-dimensional array
MaxSide == 2       \* length of each axis of a two-dimensional array

\* The plugin is not involved in what follows
PluginIdle ==
    UNCHANGED <<shuffles, _runs, closed, run, tasks, sched, teardown_pc, executor, ops,
                last, limiters, inbox>>

Workers == <<"W0", "W1">>

\* c[1] + ... + c[k]
RECURSIVE Offset(_, _)
Offset(c, k) == IF k = 0 THEN 0 ELSE c[k] + Offset(c, k - 1)

MaxOf(S) == CHOOSE x \in S : \A y \in S : y <= x

\* The chunkings of an axis of length n: tuples of positive sizes
Chunkings(n) ==
    {c \in UNION {[1..m -> 1..n] : m \in 1..n} : Offset(c, Len(c)) = n}

\* The coordinates of an array of the given shape
Indices(shape) ==
    {c \in [DOMAIN shape -> 0..MaxOf(Range(shape))] : \A d \in DOMAIN shape : c[d] < shape[d]}

\* The indices of the bricks of a chunked array
Bricks(chunks) == Indices([d \in DOMAIN chunks |-> Len(chunks[d])])

\* Brick idx of the array chunked as chunks; the element at position g of the
\* whole array has the value g, so that every element is told apart.
Brick(chunks, idx) ==
    LET shape == [d \in DOMAIN chunks |-> chunks[d][idx[d] + 1]]
    IN [shape |-> shape,
        at |-> [c \in Indices(shape) |->
                  [d \in DOMAIN chunks |-> Offset(chunks[d], idx[d]) + c[d]]]]

\* data[ndslice] of numpy
Slice(data, ndslice) ==
    LET shape == [d \in DOMAIN ndslice |-> ndslice[d].stop - ndslice[d].start]
    IN [shape |-> shape,
        at |-> [c \in Indices(shape) |->
                  data.at[[d \in DOMAIN ndslice |-> c[d] + ndslice[d].start]]]]

\* pickle.dumps and pickle.loads
pickle_dumps(v) == <<"pickle", v>>
pickle_loads(b) == b[2]

\* dask.array.rechunk.old_to_new on one axis: for new chunk k, the old chunks
\* it overlaps and the slice of each that falls into it
old_to_new_axis(o, n, k) ==
    LET lo == Offset(n, k - 1)
        hi == Offset(n, k)
        all == [i \in 1..Len(o) |->
                  LET from == Offset(o, i - 1)
                      to == Offset(o, i)
                  IN [chunk |-> i - 1,
                      start |-> (IF lo > from THEN lo ELSE from) - from,
                      stop |-> (IF hi < to THEN hi ELSE to) - from]]
    IN SelectSeq(all, LAMBDA x : x.start < x.stop)

old_to_new(old, new) ==
    [a \in DOMAIN old |-> [k \in 1..Len(new[a]) |-> old_to_new_axis(old[a], new[a], k)]]

\* Split(chunk_index, split_index, slice)
Split(chunk_index, split_index, slice) ==
    [chunk_index |-> chunk_index, split_index |-> split_index, slice |-> slice]

\* old_chunk.sort(key=lambda split: split.slice.start): a stable sort
RECURSIVE sort_by_start(_)
sort_by_start(s) ==
    IF Len(s) <= 1 THEN s
    ELSE LET x == Head(s)
             rest == sort_by_start(Tail(s))
             before == SelectSeq(rest, LAMBDA y : y.slice.start < x.slice.start)
             after == SelectSeq(rest, LAMBDA y : y.slice.start >= x.slice.start)
         IN before \o <<x>> \o after

\* The splits of old chunk i (from 1) on one axis, in the order the loops of
\* split_axes append them; index says which split_index a split is given
splits_of(new_axis, i, index) ==
    Concat([k \in 1..Len(new_axis) |->
              LET all == [j \in 1..Len(new_axis[k]) |->
                            [old |-> new_axis[k][j].chunk,
                             split |-> Split(k - 1, index[j],
                                             [start |-> new_axis[k][j].start,
                                              stop |-> new_axis[k][j].stop])]]
                  mine == SelectSeq(all, LAMBDA x : x.old = i - 1)
              IN [j \in 1..Len(mine) |-> mine[j].split]])

\* split_axes that gives every split the split_index 0
split_axes_one_index(old, new) ==
    LET _old_to_new == old_to_new(old, new)
    IN [a \in DOMAIN old |->
          [i \in 1..Len(old[a]) |->
             sort_by_start(splits_of(_old_to_new[a], i, [j \in Nat |-> 0]))]]

\* split_axes: per axis and old chunk, the splits of that chunk by slice.start
split_axes(old, new) ==
    LET _old_to_new == old_to_new(old, new)
    IN [a \in DOMAIN old |->
          [i \in 1..Len(old[a]) |->
             sort_by_start(splits_of(_old_to_new[a], i, [j \in Nat |-> j - 1]))]]

\* product that pairs the lists up like zip on their first elements only
product_first_only(lists) ==
    IF \E i \in DOMAIN lists : lists[i] = <<>> THEN <<>>
    ELSE << [i \in DOMAIN lists |-> lists[i][1]] >>

\* itertools.product of the lists, in its order
RECURSIVE product(_)
product(lists) ==
    IF lists = <<>> THEN << <<>> >>
    ELSE LET h == Head(lists)
             rest == product(Tail(lists))
         IN Concat([i \in 1..Len(h) |-> [j \in 1..Len(rest) |-> <<h[i]>> \o rest[j]]])

\* worker_for of a rechunk, the scheduler's assignment of the new bricks
chunk_worker(idx) == Workers[(Offset(idx, Len(idx)) % Len(Workers)) + 1]

\* ArrayRechunkRun.add_partition, the offloaded function: the shards of input
\* brick partition_id, per destination worker
rechunk_shards(data, partition_id, axes) ==
    LET ndsplits == product([a \in DOMAIN axes |-> axes[a][partition_id[a] + 1]])
        entries == [j \in 1..Len(ndsplits) |->
                      LET ndsplit == ndsplits[j]
                          chunk_index == [a \in DOMAIN ndsplit |-> ndsplit[a].chunk_index]
                          shard_index == [a \in DOMAIN ndsplit |-> ndsplit[a].split_index]
                          ndslice == [a \in DOMAIN ndsplit |-> ndsplit[a].slice]
                      IN <<chunk_index, <<shard_index, Slice(data, ndslice)>> >>]
        out == [w \in Range(Workers) |->
                  SelectSeq(entries, LAMBDA e : chunk_worker(e[1]) = w)]
    IN {[to |-> w, d |-> <<partition_id, pickle_dumps(out[w])>>] :
          w \in {v \in Range(Workers) : out[v] # <<>>}}

\* ArrayRechunkRun._repartition_shards: the shards of all buffers by new brick
_repartition_shards(data) ==
    LET all == Concat([i \in 1..Len(data) |-> pickle_loads(data[i])])
        ids == {all[i][1] : i \in 1..Len(all)}
    IN [id \in ids |->
          LET mine == SelectSeq(all, LAMBDA e : e[1] = id)
          IN pickle_dumps([j \in 1..Len(mine) |-> mine[j][2]])]

\* DiskShardsBuffer.write: each group is appended to the file of its key
disk_append(disk, groups) ==
    [k \in DOMAIN disk \cup DOMAIN groups |->
       (IF k \in DOMAIN disk THEN disk[k] ELSE <<>>)
       \o (IF k \in DOMAIN groups THEN <<groups[k]>> ELSE <<>>)]

\* dask.array.core.concatenate3 of the lattice of shards
concatenate3(shards, subshape) ==
    LET dims == DOMAIN subshape
        unit(d, j) == [e \in dims |-> IF e = d THEN j ELSE 0]
        off(d, j) == Offset([i \in 1..j |-> shards[unit(d, i - 1)].shape[d]], j)
        shape == [d \in dims |-> off(d, subshape[d])]
    IN [shape |-> shape,
        at |-> [c \in Indices(shape) |->
                  LET x == [d \in dims |->
                              CHOOSE j \in 0..(subshape[d] - 1) :
                                  off(d, j) <= c[d] /\ c[d] < off(d, j + 1)]
                  IN shards[x].at[[d \in dims |-> c[d] - off(d, x[d])]]]]

\* convert_chunk: every pickled block of the file is loaded, the shards are
\* placed by their index (a later one replaces an earlier of the same index),
\* the lattice must be full, and the shards are concatenated
convert_chunk(data) ==
    LET all == Concat([i \in 1..Len(data) |-> pickle_loads(data[i])])
        keys == {all[i][1] : i \in 1..Len(all)}
        shards == [x \in keys |->
                     all[MaxOf({i \in 1..Len(all) : all[i][1] = x})][2]]
        dims == DOMAIN (CHOOSE x \in keys : TRUE)
        subshape == [d \in dims |-> MaxOf({x[d] : x \in keys}) + 1]
        prod == Cardinality(Indices(subshape))
    IN IF Cardinality(keys) # prod THEN "AssertionError"
       ELSE concatenate3(shards, subshape)

\* rechunk_transfer of input brick p: the brick is split and its shards are
\* handed to the comm buffer, one message per destination worker
ArrayRechunkRun_add_partition(p) ==
    /\ job.kind = "array"
    /\ p \in Bricks(job.old) \ job.added
    /\ job' = [job EXCEPT
                 !.added = @ \cup {p},
                 !.wire = @ \cup rechunk_shards(Brick(job.old, p), p,
                                                split_axes(job.old, job.new))]
    /\ PluginIdle

\* shuffle_receive on the worker message m is addressed to: _receive
ArrayRechunkRun_receive(m) ==
    /\ job.kind = "array"
    /\ m \in job.wire
    /\ LET acc == _receive_filter(<<m.d>>, [received |-> job.received[m.to],
                                            total_recvd |-> 0, filtered |-> <<>>])
       IN job' = [job EXCEPT
                    !.wire = @ \ {m},
                    !.received[m.to] = acc.received,
                    !.disk = IF acc.filtered = <<>> THEN @
                             ELSE disk_append(@, _repartition_shards(acc.filtered))]
    /\ PluginIdle

\* rechunk_unpack of new brick k on its owner, once every input brick was
\* added and every shard has arrived (the barrier)
ArrayRechunkRun_get_output_partition(k) ==
    /\ job.kind = "array"
    /\ job.added = Bricks(job.old) /\ job.wire = {}
    /\ k \in Bricks(job.new) \ DOMAIN job.out
    /\ job' = [job EXCEPT
                 !.out = [x \in DOMAIN @ \cup {k} |->
                            IF x # k THEN @[x]
                            ELSE IF k \in DOMAIN job.disk THEN convert_chunk(job.disk[k])
                            ELSE "KeyError"]]
    /\ PluginIdle

\* A rechunk from the chunks old to the chunks new, nothing added yet
ArrayJob(old, new) ==
    [kind |-> "array", old |-> old, new |-> new, added |-> {}, wire |-> {},
     received |-> [w \in Range(Workers) |-> {}], disk |-> <<>>, out |-> <<>>]

\* The rechunks followed: every pair of chunkings of a one-dimensional array
\* of length up to MaxLen and of a two-dimensional array of sides up to
\* MaxSide, and the rechunk of twelve elements from (4, 4, 4) to (3, 3, 3, 3)
ArrayJobs ==
    {ArrayJob(<<o>>, <<n>>) :
        o \in UNION {Chunkings(l) : l \in 1..MaxLen},
        n \in UNION {Chunkings(l) : l \in 1..MaxLen}}
    \cup {ArrayJob(<<o1, o2>>, <<n1, n2>>) :
            o1 \in UNION {Chunkings(l) : l \in 1..MaxSide},
            o2 \in UNION {Chunkings(l) : l \in 1..MaxSide},
            n1 \in UNION {Chunkings(l) : l \in 1..MaxSide},
            n2 \in UNION {Chunkings(l) : l \in 1..MaxSide}}
    \cup {ArrayJob(<< <<4, 4, 4>> >>, << <<3, 3, 3, 3>> >>)}

ArrayInit ==
    /\ shuffles = [id \in ShuffleIds |-> 0]
    /\ _runs = {}
    /\ closed = FALSE
    /\ run = <<>>
    /\ tasks = [t \in Slots |-> Idle]
    /\ sched = [id \in ShuffleIds |-> 0]
    /\ teardown_pc = "idle"
    /\ executor = "up"
    /\ ops = 0
    /\ last = NoEvent
    /\ limiters = NoBytes
    /\ inbox = NoMessages
    /\ job \in {j \in ArrayJobs :
                  \A a \in DOMAIN j.old :
                      Offset(j.old[a], Len(j.old[a])) = Offset(j.new[a], Len(j.new[a]))}

ArrayNext ==
    \/ \E p \in Bricks(job.old) : ArrayRechunkRun_add_partition(p)
    \/ \E m \in job.wire : ArrayRechunkRun_receive(m)
    \/ \E k \in Bricks(job.new) : ArrayRechunkRun_get_output_partition(k)

ArraySpec == ArrayInit /\ [][ArrayNext]_vars

----------------------------------------------------------------------------
(* The data of a dataframe shuffle: the rows of the input partitions are
   split by destination worker, sent, split by output partition, written to
   disk and read back *)

MaxIn == 2         \* input partitions of a table
MaxRows == 2       \* rows of one input partition
MaxOut == 3        \* output partitions (npartitions)

\* A row: the column the shuffle is on holds its output partition
TableRow(b) == [_partitions |-> b]

\* serialize_table and its inverse (the Arrow stream of a table)
serialize_table(t) == <<"arrow", t>>
deserialize_table(b) == b[2]

\* list_of_buffers_to_table: the tables of the buffers, concatenated
list_of_buffers_to_table(data) ==
    Concat([i \in 1..Len(data) |-> deserialize_table(data[i])])

\* convert_partition: the tables of the file, concatenated
convert_partition(data) == list_of_buffers_to_table(data)

\* get_worker_for_range_sharding that takes the partition modulo the workers
get_worker_for_range_sharding_modulo(npartitions, output_partition, workers) ==
    workers[(output_partition % Len(workers)) + 1]

\* get_worker_for_range_sharding
get_worker_for_range_sharding(npartitions, output_partition, workers) ==
    workers[((Len(workers) * output_partition) \div npartitions) + 1]

\* DataFrameShuffleState.worker_for: the wanted output partitions only
table_worker_for(npartitions, parts_out) ==
    [j \in parts_out |-> get_worker_for_range_sharding(npartitions, j, Workers)]

\* t.sort_by(key): a stable sort; key gives the integer key of each row
RECURSIVE sort_by(_, _)
sort_by(t, key) ==
    IF Len(t) <= 1 THEN t
    ELSE LET x == Head(t)
             rest == sort_by(Tail(t), key)
             before == SelectSeq(rest, LAMBDA y : key[y] < key[x])
             after == SelectSeq(rest, LAMBDA y : key[y] >= key[x])
         IN before \o <<x>> \o after

\* np.where(codes[1:] != codes[:-1])[0] + 1 after a leading 0: the offsets
\* (from 0) at which a new value starts
split_offsets(codes) ==
    SelectSeq([i \in 1..Len(codes) |-> i - 1],
              LAMBDA a : a = 0 \/ codes[a + 1] # codes[a])

\* The slices between consecutive offsets, and from the last one to the end
sliding_shards(t, splits) ==
    [j \in 1..Len(splits) |->
       SubSeq(t, splits[j] + 1, IF j < Len(splits) THEN splits[j + 1] ELSE Len(t))]

\* split_by_worker that gives every worker of worker_for an entry, an empty
\* table where no row goes to it
split_by_worker_every_worker(df, for) ==
    LET merged == SelectSeq(df, LAMBDA row : row._partitions \in DOMAIN for)
    IN [failed |-> FALSE,
        out |-> [w \in {for[j] : j \in DOMAIN for} |->
                   SelectSeq(merged, LAMBDA row : for[row._partitions] = w)]]

\* split_by_worker that returns the shard of the first worker only
split_by_worker_first_only(df, for) ==
    LET categories == SelectSeq(Workers, LAMBDA w : \E j \in DOMAIN for : for[j] = w)
        first == SelectSeq(df, LAMBDA row : row._partitions \in DOMAIN for
                                            /\ for[row._partitions] = categories[1])
    IN [failed |-> FALSE,
        out |-> IF first = <<>> THEN <<>> ELSE [w \in {categories[1]} |-> first]]

\* split_by_worker: the inner merge with the codes of worker_for drops the
\* rows of unwanted outputs; the rest is sorted by code and sliced per worker
\* (failed: the assertion on the number of rows does not hold)
split_by_worker(df, for) ==
    LET categories == SelectSeq(Workers, LAMBDA w : \E j \in DOMAIN for : for[j] = w)
        code(w) == CHOOSE c \in 1..Len(categories) : categories[c] = w
        merged == SelectSeq(df, LAMBDA row : row._partitions \in DOMAIN for)
        nrows == Len(merged)
        t == sort_by(merged, [row \in Range(merged) |-> code(for[row._partitions])])
        codes == [i \in 1..Len(t) |-> code(for[t[i]._partitions])]
        splits == split_offsets(codes)
        shards == sliding_shards(t, splits)
        out == [w \in {categories[codes[splits[j] + 1]] : j \in 1..Len(splits)} |->
                  shards[CHOOSE j \in 1..Len(splits) :
                             categories[codes[splits[j] + 1]] = w]]
    IN IF nrows = 0 THEN [failed |-> FALSE, out |-> <<>>]
       ELSE [failed |-> SumOver(DOMAIN out, [w \in DOMAIN out |-> Len(out[w])]) # nrows,
             out |-> out]

\* split_by_partition: the table sorted by the column and sliced per value
split_by_partition(table) ==
    LET partitions == {table[i]._partitions : i \in 1..Len(table)}
        t == sort_by(table, [row \in Range(table) |-> row._partitions])
        partition == [i \in 1..Len(t) |-> t[i]._partitions]
        splits == split_offsets(partition)
        shards == sliding_shards(t, splits)
    IN [failed |-> Len(t) # Len(Concat(shards)) \/ Cardinality(partitions) # Len(shards),
        out |-> [k \in partitions |->
                   shards[CHOOSE j \in 1..Len(splits) : partition[splits[j] + 1] = k]]]

\* DataFrameShuffleRun._repartition_buffers: groups keyed by (k,)
table_repartition_buffers(data) ==
    LET table == list_of_buffers_to_table(data)
        groups == split_by_partition(table)
    IN [failed |-> groups.failed,
        out |-> [key \in {<<k>> : k \in DOMAIN groups.out} |->
                   serialize_table(groups.out[key[1]])]]

\* shuffle_transfer of input partition i (from 0)
DataFrameShuffleRun_add_partition(i) ==
    /\ job.kind = "table"
    /\ i \in (0..(Len(job.inputs) - 1)) \ job.added
    /\ LET out == split_by_worker(job.inputs[i + 1],
                                  table_worker_for(job.npartitions, job.parts_out))
       IN job' = [job EXCEPT
                    !.added = @ \cup {i},
                    !.failed = @ \/ out.failed,
                    !.wire = IF out.failed THEN @
                             ELSE @ \cup {[to |-> w, d |-> <<i, serialize_table(out.out[w])>>] :
                                            w \in DOMAIN out.out}]
    /\ PluginIdle

\* shuffle_receive on the worker message m is addressed to: _receive
DataFrameShuffleRun_receive(m) ==
    /\ job.kind = "table"
    /\ m \in job.wire
    /\ LET acc == _receive_filter(<<m.d>>, [received |-> job.received[m.to],
                                            total_recvd |-> 0, filtered |-> <<>>])
           groups == table_repartition_buffers(acc.filtered)
       IN job' = [job EXCEPT
                    !.wire = @ \ {m},
                    !.received[m.to] = acc.received,
                    !.failed = @ \/ (acc.filtered # <<>> /\ groups.failed),
                    !.disk = IF acc.filtered = <<>> \/ groups.failed THEN @
                             ELSE disk_append(@, groups.out)]
    /\ PluginIdle

\* shuffle_unpack of output partition j on its owner, after the barrier: a
\* key that was never written gives meta.copy(), the empty table
DataFrameShuffleRun_get_output_partition(j) ==
    /\ job.kind = "table"
    /\ job.added = 0..(Len(job.inputs) - 1) /\ job.wire = {}
    /\ j \in job.parts_out \ DOMAIN job.out
    /\ job' = [job EXCEPT
                 !.out = [x \in DOMAIN @ \cup {j} |->
                            IF x # j THEN @[x]
                            ELSE IF <<j>> \in DOMAIN job.disk
                                 THEN convert_partition(job.disk[<<j>>])
                                 ELSE <<>>]]
    /\ PluginIdle

\* The tables of up to MaxRows rows for npartitions output partitions
Tables(npartitions) ==
    UNION {[1..n -> {TableRow(b) : b \in 0..(npartitions - 1)}] : n \in 0..MaxRows}

\* The shuffles followed: a table of up to MaxIn input partitions, shuffled
\* to up to MaxOut output partitions of which parts_out are wanted
TableJobs ==
    UNION {
      {[kind |-> "table", npartitions |-> m, parts_out |-> po, inputs |-> ins,
        added |-> {}, failed |-> FALSE, wire |-> {},
        received |-> [w \in Range(Workers) |-> {}], disk |-> <<>>, out |-> <<>>] :
         po \in (SUBSET (0..(m - 1))) \ {{}},
         ins \in UNION {[1..n -> Tables(m)] : n \in 1..MaxIn}} :
      m \in 1..MaxOut}

TableInit ==
    /\ shuffles = [id \in ShuffleIds |-> 0]
    /\ _runs = {}
    /\ closed = FALSE
    /\ run = <<>>
    /\ tasks = [t \in Slots |-> Idle]
    /\ sched = [id \in ShuffleIds |-> 0]
    /\ teardown_pc = "idle"
    /\ executor = "up"
    /\ ops = 0
    /\ last = NoEvent
    /\ limiters = NoBytes
    /\ inbox = NoMessages
    /\ job \in TableJobs

TableNext ==
    \/ \E i \in 0..(MaxIn - 1) : DataFrameShuffleRun_add_partition(i)
    \/ \E m \in job.wire : DataFrameShuffleRun_receive(m)
    \/ \E j \in 0..(MaxOut - 1) : DataFrameShuffleRun_get_output_partition(j)

TableSpec == TableInit /\ [][TableNext]_vars

----------------------------------------------------------------------------
(* The memory of two runs on one worker: what their comm buffers and disk
   buffers hold is accounted against the limiters the plugin gave them *)

\* The payloads written in one call, in MiB
Sizes == {50, 100, 512}

\* A limiter of its own for every run, instead of the plugin's
memory_limiter_comms_of_run(o) == <<"comms", o>>

\* memory_limiter_comms / memory_limiter_disk that _create_dataframe_shuffle_run
\* and _create_array_rechunk_run hand to run o: the plugin's
memory_limiter_comms(o) == <<"comms", 0>>
memory_limiter_disk(o) == <<"disk", 0>>

Capacity(l) == IF l[1] = "comms" THEN CommsCapacity ELSE DiskCapacity

\* ResourceLimiter.acquire(n) on l would not suspend
available(l, n) == limiters.in_use[l] + n <= Capacity(l)

\* run o writes n MiB of shards to its comm buffer: the bytes are acquired
\* (the caller is suspended until they fit) and queued
comm_write(o, n) ==
    /\ raise_if_closed(run[o]) = "ok"
    /\ available(memory_limiter_comms(o), n)
    /\ limiters' = [limiters EXCEPT !.in_use[memory_limiter_comms(o)] = @ + n,
                                    !.held[o].comms = @ + n]
    /\ UNCHANGED <<shuffles, _runs, closed, run, tasks, sched, teardown_pc, executor, ops,
                   last, job, inbox>>

\* the comm buffer of run o has sent what it had queued: the bytes are released
comm_sent(o) ==
    /\ limiters.held[o].comms > 0
    /\ limiters' = [limiters EXCEPT
                      !.in_use[memory_limiter_comms(o)] = @ - limiters.held[o].comms,
                      !.held[o].comms = 0]
    /\ UNCHANGED <<shuffles, _runs, closed, run, tasks, sched, teardown_pc, executor, ops,
                   last, job, inbox>>

\* run o hands n MiB of groups to its disk buffer
disk_write(o, n) ==
    /\ raise_if_closed(run[o]) = "ok"
    /\ available(memory_limiter_disk(o), n)
    /\ limiters' = [limiters EXCEPT !.in_use[memory_limiter_disk(o)] = @ + n,
                                    !.held[o].disk = @ + n]
    /\ UNCHANGED <<shuffles, _runs, closed, run, tasks, sched, teardown_pc, executor, ops,
                   last, job, inbox>>

\* the disk buffer of run o has written what it held: the bytes are released
disk_written(o) ==
    /\ limiters.held[o].disk > 0
    /\ limiters' = [limiters EXCEPT
                      !.in_use[memory_limiter_disk(o)] = @ - limiters.held[o].disk,
                      !.held[o].disk = 0]
    /\ UNCHANGED <<shuffles, _runs, closed, run, tasks, sched, teardown_pc, executor, ops,
                   last, job, inbox>>

\* A dataframe shuffle and a rechunk are registered, nothing is buffered
MemoryInit ==
    /\ shuffles = [id \in ShuffleIds |-> IF id = "A" THEN 1 ELSE 2]
    /\ _runs = {1, 2}
    /\ closed = FALSE
    /\ run = <<_create_shuffle_run("A", 1), _create_shuffle_run("B", 1)>>
    /\ tasks = [t \in Slots |-> Idle]
    /\ sched = [id \in ShuffleIds |-> 1]
    /\ teardown_pc = "idle"
    /\ executor = "up"
    /\ ops = 0
    /\ last = NoEvent
    /\ job = NoJob
    /\ limiters = [NoBytes EXCEPT !.held = [o \in {1, 2} |-> [comms |-> 0, disk |-> 0]]]
    /\ inbox = NoMessages

MemoryNext ==
    \/ \E o \in DOMAIN run, n \in Sizes : comm_write(o, n)
    \/ \E o \in DOMAIN run : comm_sent(o)
    \/ \E o \in DOMAIN run, n \in Sizes : disk_write(o, n)
    \/ \E o \in DOMAIN run : disk_written(o)

MemorySpec == MemoryInit /\ [][MemoryNext]_vars

----------------------------------------------------------------------------
(* The shuffle_fail broadcast that follows a stale rejection *)

\* An operation tagged run_id is rejected as stale on some worker, which needs
\* a run newer than run_id to have been issued; shuffle_fail for the old run is
\* broadcast, once, and is now on its way to this worker
stale_rejected(id, run_id) ==
    /\ run_id < sched[id]
    /\ inbox[<<id, run_id>>] = "none"
    /\ inbox' = [inbox EXCEPT ![<<id, run_id>>] = "sent"]
    /\ UNCHANGED <<shuffles, _runs, closed, run, tasks, sched, teardown_pc, executor, ops,
                   last, job, limiters>>

\* The broadcast reaches this worker: its shuffle_fail handler runs
shuffle_fail_delivered(id, run_id) ==
    /\ inbox[<<id, run_id>>] = "sent"
    /\ inbox' = [inbox EXCEPT ![<<id, run_id>>] = "delivered"]
    /\ shuffle_fail(id, run_id)

Delivery == \E rid \in RunIds : shuffle_fail_delivered("A", rid)

FailNext ==
    \/ /\ ops < MaxOps
       /\ \/ \E t \in Slots, rid \in RunIds :
                \E data \in Batch(rid) : shuffle_receive(t, "A", rid, data)
          \/ \E t \in Slots : add_partition(t, "A", 0)
    \/ scheduler_restart("A")
    \/ \E rid \in RunIds : stale_rejected("A", rid)
    \/ Delivery
    \/ Lookup
    \/ Resume
    \/ Closing

\* A message sent on the worker's stream is delivered, and the event loop runs
\* its handler
FailSpec == Init /\ [][FailNext]_vars /\ WF_vars(Delivery)

----------------------------------------------------------------------------
(* The task graph of one shuffle: transfer tasks, the barrier task, unpack
   tasks, run by the compute engine in the order of their dependencies *)

MaxGraphOps == 7   \* plugin calls the tasks of the graph make in one behaviour

\* The keys of the graph: (name, i) per input partition, the barrier key, and
\* (name, part_out) per output partition of this worker
transfer_keys == {<<"transfer", i>> : i \in Pids}

barrier_key == <<"barrier">>

unpack_keys == {<<"unpack", j>> : j \in LocalParts}

\* A graph in which the barrier task does not depend on the transfer tasks
dependencies_without_transfers(key) ==
    IF key \in unpack_keys THEN {barrier_key} ELSE {}

\* _construct_graph / rechunk_p2p: the keys a task takes as arguments
dependencies(key) ==
    IF key \in transfer_keys THEN {}
    ELSE IF key = barrier_key THEN transfer_keys
    ELSE {barrier_key}

\* The plugin call of the task with this key is in progress for shuffle id
Processing(id, key) ==
    \E t \in Slots :
        /\ tasks[t].id = id
        /\ \/ key \in transfer_keys /\ tasks[t].op = "add_partition" /\ tasks[t].part = key[2]
           \/ key = barrier_key /\ tasks[t].op = "barrier"
           \/ key \in unpack_keys /\ tasks[t].op = "get_output_partition"
                                  /\ tasks[t].part = key[2]

\* The task has returned its result: a transfer task once add_partition handed
\* its partition to the comm buffer of the run, the barrier task once the
\* broadcast was acknowledged, which this worker does by crossing the barrier
InMemory(id, key) ==
    /\ shuffles[id] # 0
    /\ ~Processing(id, key)
    /\ LET r == run[shuffles[id]]
       IN \/ key \in transfer_keys /\ key[2] \in r.comm
          \/ key = barrier_key /\ r.transferred

\* The compute engine runs a task when all its dependencies are in memory
Runnable(id, key) ==
    /\ ~Processing(id, key)
    /\ ~InMemory(id, key)
    /\ \A d \in dependencies(key) : InMemory(id, d)

run_task(t, id, key) ==
    /\ Runnable(id, key)
    /\ \/ key \in transfer_keys /\ add_partition(t, id, key[2])
       \/ key = barrier_key /\ _barrier(t, id, <<1, 1>>)
       \/ key \in unpack_keys /\ get_output_partition(t, id, 1, key[2])

\* The barrier's broadcast reaches this worker
barrier_shuffle_inputs_done(t, id) ==
    /\ \E b \in Slots : At(b, "barrier", "broadcast") /\ tasks[b].id = id
    /\ ~run[shuffles[id]].transferred
    /\ \A u \in Slots : ~(tasks[u].op = "shuffle_inputs_done")
    /\ shuffle_inputs_done(t, id, 1)

\* The acknowledgements of the broadcast are in: the barrier task returns
barrier_acknowledged(t) ==
    /\ At(t, "barrier", "broadcast")
    /\ run[tasks[t].obj].transferred \/ run[tasks[t].obj].exception # None
    /\ barrier_broadcast(t)

\* The shards of a peer's transfer tasks arrive before its comm buffer is
\* flushed, which the barrier waits for
peer_shuffle_receive(t, id) ==
    /\ ~(shuffles[id] # 0 /\ run[shuffles[id]].transferred)
    /\ \E data \in Batch(1) : shuffle_receive(t, id, 1, data)

GraphResume ==
    \/ \E t \in Slots, ok \in BOOLEAN :
          \/ inputs_done_flush(t, ok)
          \/ get_output_partition_convert(t, ok)
    \/ \E t \in Slots :
          \/ barrier_acknowledged(t)
          \/ get_output_partition_call(t)
          \/ get_output_partition_read(t)

GraphNext ==
    \/ /\ ops < MaxGraphOps
       /\ \E t \in Slots, id \in ShuffleIds :
            /\ sched[id] = 1
            /\ \/ \E key \in transfer_keys \cup {barrier_key} \cup unpack_keys :
                     run_task(t, id, key)
               \/ barrier_shuffle_inputs_done(t, id)
               \/ peer_shuffle_receive(t, id)
    \/ Lookup
    \/ Resume
    \/ GraphResume

GraphSpec == RunInit /\ [][GraphNext]_vars

----------------------------------------------------------------------------
(* The assignment of output partitions to workers: range sharding of the
   output partitions of a dataframe shuffle, hash sharding of the new bricks
   of a rechunk *)

MaxParts == 5      \* npartitions of the shuffles whose assignment is followed
MaxWorkers == 3    \* workers taking part
MaxHash == 2       \* hash values lie in -MaxHash..MaxHash

\* The worker lists: W0, ..., of every length from 1 to MaxWorkers
WorkerLists == {[i \in 1..n |-> <<"W", i - 1>>] : n \in 1..MaxWorkers}

\* The new bricks whose owner is asked for
NDIndices == {<<0>>, <<1>>, <<0, 1>>}

\* get_worker_for_hash_sharding; hash is the hash function of the run, an
\* integer of either sign per index, and % takes the sign of the divisor
get_worker_for_hash_sharding(output_partition, workers, hash) ==
    workers[(hash[output_partition] % Len(workers)) + 1]

\* The scheduler computes worker_for of a dataframe shuffle for partition p
assign_range(p) ==
    /\ job.kind = "range"
    /\ p \in 0..(job.npartitions - 1) \ DOMAIN job.worker_for
    /\ job' = [job EXCEPT
                 !.worker_for = [x \in DOMAIN @ \cup {p} |->
                                   IF x # p THEN @[x]
                                   ELSE get_worker_for_range_sharding(
                                            job.npartitions, p, job.workers)]]
    /\ PluginIdle

\* The scheduler computes worker_for of a rechunk for new brick idx
assign_hash(idx) ==
    /\ job.kind = "hash"
    /\ idx \in NDIndices \ DOMAIN job.worker_for
    /\ job' = [job EXCEPT
                 !.worker_for = [x \in DOMAIN @ \cup {idx} |->
                                   IF x # idx THEN @[x]
                                   ELSE get_worker_for_hash_sharding(
                                            idx, job.workers, job.hash)]]
    /\ PluginIdle

AssignInit ==
    /\ shuffles = [id \in ShuffleIds |-> 0]
    /\ _runs = {}
    /\ closed = FALSE
    /\ run = <<>>
    /\ tasks = [t \in Slots |-> Idle]
    /\ sched = [id \in ShuffleIds |-> 0]
    /\ teardown_pc = "idle"
    /\ executor = "up"
    /\ ops = 0
    /\ last = NoEvent
    /\ limiters = NoBytes
    /\ inbox = NoMessages
    /\ job \in {[kind |-> "range", npartitions |-> n, workers |-> w, worker_for |-> <<>>] :
                   n \in 1..MaxParts, w \in WorkerLists}
               \cup {[kind |-> "hash", hash |-> h, workers |-> w, worker_for |-> <<>>] :
                       h \in [NDIndices -> (-MaxHash)..MaxHash], w \in WorkerLists}

AssignNext ==
    \/ \E p \in 0..(MaxParts - 1) : assign_range(p)
    \/ \E idx \in NDIndices : assign_hash(idx)

AssignSpec == AssignInit /\ [][AssignNext]_vars

----------------------------------------------------------------------------
(* Either data plane: a rechunk or a dataframe shuffle *)

DataInit == ArrayInit \/ TableInit

DataNext ==
    \/ job.kind = "array" /\ ArrayNext
    \/ job.kind = "table" /\ TableNext

DataSpec == DataInit /\ [][DataNext]_vars

----------------------------------------------------------------------------
(* A worker that owns output partitions of a shuffle whose barrier task runs
   elsewhere: shards arrive, some of them twice, the barrier's
   shuffle_inputs_done arrives, and the unpack tasks run once the barrier
   task has returned *)

\* The barrier task has returned: this worker has crossed the barrier and
\* every peer has flushed its comm buffer, so every payload sent was
\* acknowledged. A shuffle_receive still in flight here is then one whose
\* payload was sent again and acknowledged on that delivery.
barrier_returned(id) ==
    /\ shuffles[id] # 0
    /\ run[shuffles[id]].transferred
    /\ \A u \in Slots :
          tasks[u].op = "shuffle_receive" =>
              /\ tasks[u].obj = shuffles[id]
              /\ run[shuffles[id]].again # {}

OutputNext ==
    \/ /\ ops < MaxGraphOps
       /\ \E t \in Slots, id \in ShuffleIds :
            /\ sched[id] = 1
            /\ \/ peer_shuffle_receive(t, id)
               \/ shuffle_inputs_done(t, id, 1)
               \/ \E part \in LocalParts :
                     barrier_returned(id) /\ get_output_partition(t, id, 1, part)
    \/ Lookup
    \/ \E t \in Slots, ok \in BOOLEAN :
          \/ _receive_offload(t, ok)
          \/ _receive_disk(t, ok)
          \/ inputs_done_flush(t, ok)
          \/ get_output_partition_convert(t, ok)
    \/ \E t \in Slots :
          \/ get_output_partition_call(t)
          \/ get_output_partition_read(t)

OutputSpec == RunInit /\ [][OutputNext]_vars

----------------------------------------------------------------------------
(* Properties *)

\* The rows of the shards of run o that passed the filter and are not on disk
\* yet: those of the receive calls of o awaiting the offload or the write
PendingRows(o) ==
    Concat([t \in Slots |->
              IF tasks[t].op = "shuffle_receive" /\ tasks[t].obj = o
                 /\ tasks[t].pc \in {"offload", "disk"}
              THEN Concat(tasks[t].data) ELSE <<>>])

\* The rows of the first payload of every producer delivered to run r
FirstRows(r) == Concat([p \in 1..Cardinality(Pids) |-> r.first[p - 1]])

RowsFor(rows, k) == SelectSeq(rows, LAMBDA row : row.part = k)

Healthy(r) == r.exception = None /\ ~r.closed /\ r.close_task = "none"

\* C1: receive is idempotent. Whatever was delivered to a run, in whatever
\* batches and however often, `received` is the set of producers delivered,
\* total_recvd counts the first payload of each producer once, and (while the
\* run has not failed or been closed) its disk groups together with the writes
\* under way hold exactly the rows of those first payloads, each once: what
\* delivering every first payload once leaves. A batch of nothing but
\* producers delivered before returns without an error and changes nothing.
C1_ReceiveState ==
    \A o \in DOMAIN run :
        LET r == run[o]
            got == {p \in Pids : r.first[p] # <<>>}
        IN /\ r.received = got
           /\ r.total_recvd = SumOver(got, [p \in Pids |-> sizeof(<<p, r.first[p]>>)])
           /\ Healthy(r) =>
                \A k \in LocalParts :
                    LET have == r.disk[k] \o RowsFor(PendingRows(o), k)
                        want == RowsFor(FirstRows(r), k)
                    IN Len(have) = Len(want) /\ Range(have) = Range(want)

C1_ReceiveIdempotent ==
    /\ []C1_ReceiveState
    /\ [][(/\ ops' = ops + 1
           /\ last'.op = "shuffle_receive"
           /\ last'.obj # 0
           /\ Healthy(run[last'.obj]))
          => (/\ last'.res = "ok"
              /\ run'[last'.obj].received = run[last'.obj].received
              /\ run'[last'.obj].total_recvd = run[last'.obj].total_recvd
              /\ run'[last'.obj].disk = run[last'.obj].disk
              /\ run'[last'.obj].exception = None)]_vars

\* C1 witness: a producer was delivered again with the same payload and again
\* with a different one, and the run holds its first payload on disk
C1_Witness ==
    \E o \in DOMAIN run :
        /\ run[o].again = {"same", "different"}
        /\ Healthy(run[o])
        /\ PendingRows(o) = <<>>
        /\ run[o].disk[0] = <<Row(0, 0, run[o].run_id)>>
        /\ last.op = "shuffle_receive" /\ last.res = "ok"

\* The operations that look their run up with _get_shuffle_run
GetShuffleRunOps ==
    {"shuffle_receive", "shuffle_inputs_done", "barrier", "get_output_partition"}

\* In the step taken, _get_shuffle_run hands run object o to an operation on
\* shuffle id tagged run_id rid: the operation was called or resumed from the
\* scheduler's reply, and it goes on with o or has returned from it already.
Routed(id, rid, o) ==
    /\ o # 0
    /\ \/ \E t \in Slots :
             /\ tasks[t].pc = "reply" /\ tasks'[t] # tasks[t]
             /\ tasks[t].op \in GetShuffleRunOps
             /\ tasks[t].id = id /\ tasks[t].rid = rid
             /\ \/ tasks'[t].obj = o
                \/ tasks'[t] = Idle /\ last'.obj = o
       \/ /\ ops' = ops + 1
          /\ \/ /\ last'.op \in GetShuffleRunOps
                /\ last'.id = id /\ last'.rid = rid /\ last'.obj = o
             \/ \E t \in Slots :
                   /\ tasks[t] = Idle
                   /\ tasks'[t].op \in GetShuffleRunOps
                   /\ tasks'[t].id = id /\ tasks'[t].rid = rid /\ tasks'[t].obj = o

\* C2: once a run with run_id R2 has been installed for a shuffle, no
\* operation tagged with a run_id R1 < R2 is handed a run by _get_shuffle_run:
\* it is rejected.
C2_StaleRejected ==
    [][\A id \in ShuffleIds, rid \in RunIds, o \in DOMAIN run' :
          Routed(id, rid, o) =>
             \A p \in DOMAIN run : run[p].id = id => run[p].run_id <= rid]_vars

Registered(o) == \E id \in ShuffleIds : shuffles[id] = o

\* C3: a shuffle has at most one active run on the worker: the run the
\* registry holds for it is a live run of that shuffle that was neither failed
\* by a supersession or a shuffle_fail nor scheduled for close, and every other
\* live run is being closed. A step that replaces the registered run installs
\* a run with a higher run_id created in that step and leaves the old run
\* failed and scheduled for close; only shuffle_fail and teardown empty a slot.
C3_OneActiveRun ==
    \A o \in DOMAIN run :
        /\ Registered(o) =>
              /\ shuffles[run[o].id] = o
              /\ o \in _runs
              /\ run[o].close_task = "none" /\ ~run[o].closed
              /\ run[o].exception \notin {"superseded", "failed"}
        /\ (o \in _runs /\ ~Registered(o)) =>
              /\ run[o].close_task \in {"scheduled", "closing"}
              /\ run[o].exception # None \/ closed

C3_AtomicSupersession ==
    /\ []C3_OneActiveRun
    /\ [][\A id \in ShuffleIds :
            (shuffles[id] # 0 /\ shuffles'[id] # shuffles[id]) =>
               LET old == shuffles[id]
                   new == shuffles'[id]
               IN IF new = 0 THEN last'.op = "shuffle_fail" \/ (closed' /\ ~closed)
                  ELSE /\ new \notin DOMAIN run
                       /\ new \in _runs'
                       /\ run'[new].id = id /\ run'[new].exception = None
                       /\ run'[new].run_id > run[old].run_id
                       /\ run'[old].exception # None
                       /\ run'[old].close_task = "scheduled"
                       /\ old \in _runs']_vars

\* C3 witness: a run was superseded: it is failed and awaits its close while
\* the registry holds its successor
C3_Witness ==
    \E o \in DOMAIN run :
        /\ run[o].exception = "superseded" /\ run[o].close_task = "scheduled"
        /\ o \in _runs
        /\ shuffles[run[o].id] \notin {0, o}
        /\ run[shuffles[run[o].id]].run_id > run[o].run_id

\* C4: get_output_partition returns a partition only from a run that has
\* crossed the barrier: on a run whose transferred is false it fails, and it
\* is never past the barrier check, reading or converting, on such a run.
C4_BarrierMonotonic ==
    /\ (last.op = "get_output_partition" /\ last.res = "ok")
          => run[last.obj].transferred
    /\ \A t \in Slots :
          (tasks[t].op = "get_output_partition" /\ tasks[t].pc \in {"flush_receive", "convert"})
             => run[tasks[t].obj].transferred

\* C4 witness: get_output_partition was called on a run short of the barrier
\* while shards had been received already, and failed
C4_Witness ==
    /\ last.op = "get_output_partition" /\ last.res = "assert"
    /\ ~run[last.obj].transferred
    /\ run[last.obj].received # {}

\* C5: add_partition called on a run whose transferred is true raises: it
\* returns no run_id and hands nothing to the comm buffer. (A call that passed
\* the check before the barrier was crossed is not a further call.)
C5_NoAddAfterTransferred ==
    [][\A t \in Slots :
          (/\ tasks[t].op = "add_partition" /\ tasks[t].pc = "have_run"
           /\ tasks'[t] # tasks[t]
           /\ run[tasks[t].obj].transferred)
          => (/\ tasks'[t] = Idle
              /\ last'.op = "add_partition" /\ last'.obj = tasks[t].obj
              /\ last'.res \notin {"ok", "pending"}
              /\ run'[tasks[t].obj].comm = run[tasks[t].obj].comm)]_vars

\* C5 witness: add_partition on a healthy run past the barrier was refused
C5_Witness ==
    /\ last.op = "add_partition" /\ last.res = "no_more"
    /\ run[last.obj].transferred
    /\ run[last.obj].exception = None

\* C6 as stated: get_output_partition of a partition another worker owns,
\* called on a run past the barrier, raises Reschedule
C6_AlwaysReschedule ==
    (last.op = "get_output_partition" /\ last.obj # 0
     /\ worker_for(last.part) # LocalAddress
     /\ run[last.obj].transferred)
       => last.res = "reschedule"

\* C6: get_output_partition returns a partition only on the worker that owns
\* it. For a partition another worker owns it never gets to the disk read,
\* and it raises Reschedule if the run is past the barrier, not failed and not
\* closed; else it raises what raise_if_closed or the barrier assertion raise.
C6_OwnerOnly ==
    /\ (last.op = "get_output_partition" /\ last.res = "ok")
          => worker_for(last.part) = LocalAddress
    /\ \A t \in Slots :
          (tasks[t].op = "get_output_partition" /\ tasks[t].pc \in {"flush_receive", "convert"})
             => worker_for(tasks[t].part) = LocalAddress
    /\ (last.op = "get_output_partition" /\ last.obj # 0
        /\ worker_for(last.part) # LocalAddress)
          => LET r == run[last.obj] IN
             \/ last.res = "reschedule" /\ r.transferred
             \/ last.res = "assert" /\ ~r.transferred
             \/ last.res = r.exception /\ r.exception # None
             \/ last.res = "closed" /\ r.closed

\* C6 witness: get_output_partition of a partition of a peer raised Reschedule
\* on a run that holds shards
C6_Witness ==
    /\ last.op = "get_output_partition" /\ last.res = "reschedule"
    /\ worker_for(last.part) # LocalAddress
    /\ run[last.obj].transferred /\ run[last.obj].received # {}

\* C7: shuffle_fail whose run_id is that of the registered run removes the
\* run from the registry, latches the exception on it and schedules its close
\* in the one step, and changes nothing else of the registry, the live runs
\* and the other runs; with no registered run or another run_id it changes
\* nothing at all, so that a repeated shuffle_fail changes nothing.
C7_ShuffleFail ==
    [][last'.op = "shuffle_fail" =>
         LET id == last'.id
             o == shuffles[id]
         IN /\ _runs' = _runs /\ closed' = closed /\ tasks' = tasks
            /\ IF o # 0 /\ run[o].run_id = last'.rid
               THEN /\ last'.res = "failed" /\ last'.obj = o
                    /\ shuffles' = [shuffles EXCEPT ![id] = 0]
                    /\ run'[o].exception # None
                    /\ run[o].exception = None => run'[o].exception = "failed"
                    /\ run'[o].close_task = "scheduled"
                    /\ run'[o].n_close = 1
                    /\ \A p \in DOMAIN run : p # o => run'[p] = run[p]
                    /\ DOMAIN run' = DOMAIN run
               ELSE /\ last'.res = "ignored"
                    /\ UNCHANGED <<shuffles, run>>]_vars

\* C7 witness: a shuffle_fail was repeated for a run that an earlier one had
\* failed, and was ignored: the run has one close scheduled
C7_Witness ==
    /\ last.op = "shuffle_fail" /\ last.res = "ignored"
    /\ \E o \in DOMAIN run :
          /\ run[o].id = last.id /\ run[o].run_id = last.rid
          /\ run[o].exception = "failed" /\ run[o].n_close = 1

\* C8 as stated: the exception latched on a run is never cleared or replaced
C8_ExceptionSticky ==
    [][\A o \in DOMAIN run :
          run[o].exception # None => run'[o].exception = run[o].exception]_vars

\* In the step taken, the run of shuffle id is failed, superseded or removed
\* from the registry, or an exception is latched on one of its runs
FailedNow(id) ==
    \/ last'.op = "shuffle_fail" /\ last'.id = id
    \/ shuffles[id] # 0 /\ shuffles'[id] # shuffles[id]
    \/ \E o \in DOMAIN run : run[o].id = id /\ run'[o].exception # run[o].exception

\* C9: a step that fails or supersedes the run of one shuffle, or latches an
\* exception on it, leaves the registry entry and every run of every other
\* shuffle as they were, and the plugin open.
C9_FailureIsolation ==
    [][\A id \in ShuffleIds :
          FailedNow(id) =>
             /\ ~closed /\ ~closed'
             /\ \A other \in ShuffleIds \ {id} :
                   /\ shuffles'[other] = shuffles[other]
                   /\ \A o \in DOMAIN run : run[o].id = other =>
                         /\ run'[o] = run[o]
                         /\ (o \in _runs') = (o \in _runs)]_vars

\* C9 witness: add_partition on one shuffle has just returned its run_id while
\* a run of the other shuffle is failed and out of the registry
C9_Witness ==
    /\ last.op = "add_partition" /\ last.res = "ok"
    /\ shuffles[last.id] = last.obj
    /\ run[last.obj].exception = None /\ run[last.obj].comm # {}
    /\ ~closed
    /\ \E o \in DOMAIN run :
          /\ run[o].id # last.id
          /\ run[o].exception \in {"failed", "superseded"}
          /\ ~Registered(o)

\* C10: teardown sets closed, empties the registry and schedules the close of
\* every run it held; with the background tasks and the disk writes served
\* fairly it returns; and when it has returned the registry and _runs are
\* empty, every run ever created on the worker has been closed and removed
\* once, and the thread pool is shut down then and not before.
C10_TeardownDone ==
    /\ teardown_pc # "idle" => closed /\ \A id \in ShuffleIds : shuffles[id] = 0
    /\ (executor = "shutdown") <=> (teardown_pc = "done")
    /\ teardown_pc = "done" =>
          /\ _runs = {}
          /\ \A o \in DOMAIN run : run[o].closed /\ run[o].close_task = "done"

C10_Teardown ==
    /\ []C10_TeardownDone
    /\ [][(closed' /\ ~closed) =>
            \A o \in DOMAIN run :
               Registered(o) => run'[o].close_task = "scheduled" /\ o \in _runs']_vars
    /\ (teardown_pc # "idle") ~> (teardown_pc = "done")

\* C10 witness: teardown has returned on a worker that had a run failed or
\* superseded earlier and a run still registered when teardown began
C10_Witness ==
    /\ teardown_pc = "done" /\ executor = "shutdown"
    /\ \E o, p \in DOMAIN run :
          /\ run[o].exception \in {"failed", "superseded"}
          /\ run[p].exception = None
          /\ run[o].close_task = "done" /\ run[p].close_task = "done"

\* C11 (as the specification states it): whenever the plugin call of a
\* transfer, barrier or unpack task raises ShuffleClosedError or Reschedule,
\* the task of either flavour raises Reschedule, never a RuntimeError.
C11_AlwaysReschedule ==
    (last.op \in TaskOps /\ last.res \in {"closed", "reschedule"})
        => task_outcome(last) = "Reschedule"

\* A lookup of slot t resumes from the scheduler's reply in this step
Resumed(t) == tasks[t].pc = "reply" /\ tasks'[t] # tasks[t]

\* C12 (as the specification states it): on a closed plugin every lookup that
\* resumes from the scheduler's reply raises ShuffleClosedError.
C12_AlwaysClosedError ==
    [][\A t \in Slots : (closed /\ Resumed(t)) => last'.res = "closed"]_vars

\* C12: once the plugin is closed no step registers or creates a run, a
\* handler that starts finds the registry empty and awaits the scheduler, and
\* a lookup that resumes from the scheduler's reply raises (the RuntimeError
\* of a reply with status error, else ShuffleClosedError) and leaves the
\* registry, the runs and the live-run set as they are.
C12_ClosedNeverInstalls ==
    [][closed =>
         /\ \A id \in ShuffleIds : shuffles[id] = 0 /\ shuffles'[id] = 0
         /\ Len(run') = Len(run)
         /\ _runs' \subseteq _runs
         /\ \A t \in Slots :
              /\ (tasks[t].pc = "idle" /\ tasks'[t].pc # "idle") => tasks'[t].pc = "rpc"
              /\ Resumed(t) =>
                   /\ tasks'[t] = Idle
                   /\ last'.res = IF tasks[t].reply = 0 THEN "unknown" ELSE "closed"
                   /\ UNCHANGED <<shuffles, _runs, run>>]_vars

\* C12 witness: an add_partition that awaited the scheduler has raised
\* ShuffleClosedError on a closed plugin that had a run when teardown began
C12_Witness ==
    /\ closed /\ last.op = "add_partition" /\ last.res = "closed"
    /\ run # <<>>

\* C13: in a rechunk from the chunks old to the chunks new of the same total
\* shape, every new brick that was unpacked after all input bricks were
\* added and received equals the region of the array it covers, element by
\* element, and has the shape the new chunks give it.
C13_ArrayRoundTrip ==
    job.kind = "array" =>
        \A k \in DOMAIN job.out :
            /\ job.out[k] = Brick(job.new, k)
            /\ job.out[k].shape = [d \in DOMAIN job.new |-> job.new[d][k[d] + 1]]

\* C13 witness: twelve elements in chunks (4, 4, 4) were rechunked to
\* (3, 3, 3, 3) and all four new bricks unpacked: [0,1,2] ... [9,10,11]
C13_Witness ==
    /\ job.kind = "array"
    /\ job.old = << <<4, 4, 4>> >> /\ job.new = << <<3, 3, 3, 3>> >>
    /\ DOMAIN job.out = Bricks(job.new)
    /\ \A k \in 0..3 :
          job.out[<<k>>].at = [c \in {<<0>>, <<1>>, <<2>>} |-> <<3 * k + c[1]>>]

\* How often row occurs in the table t
Count(t, row) == Len(SelectSeq(t, LAMBDA x : x = row))

\* The tables of a function or tuple of tables, concatenated
AllRows(f) ==
    LET ks == DOMAIN f
        RECURSIVE cat(_)
        cat(S) == IF S = {} THEN <<>>
                  ELSE LET k == CHOOSE x \in S : TRUE IN f[k] \o cat(S \ {k})
    IN cat(ks)

\* C14: in a dataframe shuffle no split fails, every row of an output
\* partition has that partition as its destination, and once every (wanted)
\* output partition is unpacked their rows are, as a multiset, the input
\* rows destined for them: all input rows when all npartitions outputs are
\* wanted, none lost and none duplicated.
C14_TableRoundTrip ==
    job.kind = "table" =>
        /\ ~job.failed
        /\ \A j \in DOMAIN job.out :
              \A i \in 1..Len(job.out[j]) : job.out[j][i]._partitions = j
        /\ DOMAIN job.out = job.parts_out =>
              \A b \in 0..(job.npartitions - 1) :
                  Count(AllRows(job.out), TableRow(b))
                      = IF b \in job.parts_out
                        THEN Count(AllRows(job.inputs), TableRow(b)) ELSE 0

\* C14 witness: two input partitions with rows for all three output
\* partitions, two rows alike, were shuffled and all three outputs unpacked
C14_Witness ==
    /\ job.kind = "table"
    /\ job.npartitions = 3 /\ job.parts_out = {0, 1, 2}
    /\ job.inputs = << <<TableRow(2), TableRow(0)>>, <<TableRow(1), TableRow(2)>> >>
    /\ DOMAIN job.out = {0, 1, 2}
    /\ job.out[2] \in {<<TableRow(2), TableRow(2)>>}
    /\ Len(job.out[0]) = 1 /\ Len(job.out[1]) = 1

\* The bytes all runs together have buffered in their comm or disk buffers
Buffered(k) ==
    SumOver(DOMAIN limiters.held, [o \in DOMAIN limiters.held |-> limiters.held[o][k]])

OldRunRegistered(id) ==
    /\ shuffles[id] # 0
    /\ run[shuffles[id]].run_id < sched[id]
    /\ raise_if_closed(run[shuffles[id]]) = "ok"

\* C16 (as the specification states it): once the scheduler has issued run 2
\* while run 1 is installed, an add_partition called for the shuffle raises
\* the stale-run error, so that its data goes into no run.
C16_StaleAddRejected ==
    [][\A t \in Slots :
          (OldRunRegistered("A") /\ add_partition(t, "A", 0)) => last'.res = "stale"]_vars

\* C17 (as the specification states it): once the scheduler has issued a
\* new run_id, an add_partition called on a worker that still has the old
\* run asks the scheduler and is not handed the old run, whether or not the
\* shuffle_fail for the old run has arrived.
C17_AddLearnsNewRun ==
    [][\A t \in Slots :
          (OldRunRegistered("A") /\ add_partition(t, "A", 0))
              => (tasks'[t].pc = "rpc" /\ tasks'[t].obj # shuffles["A"])]_vars

\* C18: get_output_partition that reads, on a run that is neither failed nor
\* closed, an owned partition whose key was never written returns at once:
\* the empty partition (meta.copy()) for a dataframe shuffle, the KeyError
\* and no array for a rechunk; in both cases nothing is latched on the run
\* and nothing else changes.
C18_AbsentKey ==
    [][\A t \in Slots :
          (/\ At(t, "get_output_partition", "flush_receive")
           /\ tasks'[t] # tasks[t]
           /\ raise_if_closed(run[tasks[t].obj]) = "ok"
           /\ _read_from_disk(run[tasks[t].obj], tasks[t].part) = <<>>)
          => (/\ tasks'[t] = Idle
              /\ last'.op = "get_output_partition" /\ last'.obj = tasks[t].obj
              /\ last'.res = IF run[tasks[t].obj].type = "DATAFRAME" THEN "ok"
                             ELSE "keyerror"
              /\ worker_for(tasks[t].part) = LocalAddress
              /\ UNCHANGED <<shuffles, _runs, run>>)]_vars

\* C18 witness: a dataframe run has received shards for one of its partitions
\* and crossed the barrier, and get_output_partition has returned for another
\* owned partition, whose key was never written
C18_Witness ==
    /\ last.op = "get_output_partition" /\ last.res = "ok" /\ last.obj # 0
    /\ run[last.obj].type = "DATAFRAME"
    /\ run[last.obj].received # {}
    /\ _read_from_disk(run[last.obj], last.part) = <<>>
    /\ run[last.obj].exception = None

\* The run_ids the barrier task is called with
BarrierRunIds == {<<1>>, <<1, 2>>}

\* C19: a barrier called with run_ids that are not all the same fails on its
\* assertion in its first step, before it looks a run up, asks the scheduler
\* or broadcasts shuffle_inputs_done: nothing changes. Only a barrier whose
\* run_ids are all the same goes on, its broadcast is for the run with that
\* run_id, and when it succeeds it returns that run_id.
C19_BarrierRunIds ==
    /\ [][\A t \in Slots, id \in ShuffleIds, run_ids \in BarrierRunIds :
            _barrier(t, id, run_ids) =>
               IF \E i \in 1..Len(run_ids) : run_ids[i] # run_ids[1]
               THEN /\ last'.op = "barrier" /\ last'.res = "assert"
                    /\ UNCHANGED <<shuffles, _runs, run, tasks, sched>>
               ELSE /\ last'.res # "assert"
                    /\ tasks'[t].op = "barrier" => tasks'[t].rid = run_ids[1]]_vars
    /\ [](\A t \in Slots :
            At(t, "barrier", "broadcast") => run[tasks[t].obj].run_id = tasks[t].rid)
    /\ []((last.op = "barrier" /\ last.res = "ok")
            => run[last.obj].run_id = last.rid)

\* C19 witness: a barrier called with run_ids (1, 2) has failed on the
\* assertion while run 1 is registered and holds a partition, untouched
C19_Witness ==
    /\ last.op = "barrier" /\ last.res = "assert"
    /\ \E id \in ShuffleIds :
          /\ shuffles[id] # 0
          /\ Healthy(run[shuffles[id]])
          /\ run[shuffles[id]].comm # {}
    /\ \A t \in Slots : tasks[t] = Idle

\* The worker holds run run_id of shuffle id in its registry
Holds(id, run_id) == shuffles[id] # 0 /\ run[shuffles[id]].run_id = run_id

FullyClosed(o) == run[o].close_task \in {"done", "keyerror"}

\* C21: no two distinct run objects of the worker that are not yet fully
\* closed use the same scratch directory shuffle-<id>-<run_id>.
C21_NoPathAliasing ==
    \A o1, o2 \in DOMAIN run :
        (o1 # o2 /\ ~FullyClosed(o1) /\ ~FullyClosed(o2)) =>
            directory(run[o1]) # directory(run[o2])

\* C22: a run is registered only by a lookup that resumes from the
\* scheduler's reply, as a new object carrying the reply's run_id, on a
\* registry miss or over an older run; a shuffle_receive that missed the
\* registry and resumes with a run from the scheduler installs it and is then
\* served exactly if the fetched run_id is the one it asked for; and a
\* registered run leaves the registry only by teardown, by a shuffle_fail with
\* its run_id, or by the registration of a run with a newer run_id.
C22_LazyRun ==
    [][/\ \A id \in ShuffleIds :
            LET o == shuffles[id]
                n == shuffles'[id]
            IN /\ (n # o /\ n # 0) =>
                     /\ n = Len(run) + 1 /\ Len(run') = n /\ n \in _runs'
                     /\ o = 0 \/ run[o].run_id < run'[n].run_id
                     /\ \E t \in Slots : /\ Resumed(t)
                                         /\ tasks[t].id = id
                                         /\ tasks[t].reply = run'[n].run_id
               /\ (o # 0 /\ n # o) =>
                     \/ ~closed /\ closed' /\ n = 0
                     \/ /\ last'.op = "shuffle_fail" /\ last'.id = id
                        /\ last'.rid = run[o].run_id /\ n = 0
                     \/ n # 0 /\ run'[n].run_id > run[o].run_id
       /\ \A t \in Slots :
            LET tk == tasks[t] IN
            (/\ Resumed(t) /\ tk.op = "shuffle_receive"
             /\ shuffles[tk.id] = 0 /\ tk.reply # 0 /\ ~closed) =>
                /\ shuffles'[tk.id] = Len(run) + 1
                /\ run'[shuffles'[tk.id]].run_id = tk.reply
                /\ tk.reply = tk.rid =>
                      /\ tasks'[t].obj = shuffles'[tk.id]
                      /\ tasks'[t].pc = "offload"
                /\ tk.reply # tk.rid =>
                      /\ tasks'[t] = Idle
                      /\ last'.res = IF tk.reply > tk.rid THEN "stale" ELSE "invalid"]_vars

\* C22 witness: a shuffle_receive that found no run for A fetched run 1 from
\* the scheduler, installed it and is being served by it
C22_Witness ==
    \E t \in Slots :
        /\ tasks[t].op = "shuffle_receive" /\ tasks[t].pc = "offload"
        /\ tasks[t].reply = 1 /\ tasks[t].rid = 1
        /\ shuffles["A"] = tasks[t].obj /\ Len(run) = 1

\* The barrier task of shuffle id has sent its broadcast
BroadcastSent(id) ==
    \/ \E b \in Slots : At(b, "barrier", "broadcast") /\ tasks[b].id = id
    \/ shuffles[id] # 0 /\ run[shuffles[id]].transferred

\* C23: in the order the task graph gives, when the barrier task has sent the
\* broadcast of shuffle_inputs_done no add_partition of the run is suspended
\* and none starts afterwards, and a run that is transferred is handed
\* nothing more by the comm buffer's writers.
C23_BarrierAfterTransfers ==
    /\ [](\A id \in ShuffleIds :
            BroadcastSent(id) =>
                \A t \in Slots : ~(tasks[t].op = "add_partition" /\ tasks[t].id = id))
    /\ [][\A id \in ShuffleIds :
            BroadcastSent(id) =>
                /\ \A t \in Slots : tasks'[t].op = "add_partition" => tasks'[t].id # id
                /\ last'.op # "add_partition"]_vars
    /\ [][\A o \in DOMAIN run :
            run[o].transferred => run'[o].comm = run[o].comm]_vars

\* C23 witness: both transfer tasks have handed their partitions to the comm
\* buffer, the barrier task has run and the run is transferred
C23_Witness ==
    \E id \in ShuffleIds :
        /\ shuffles[id] # 0
        /\ run[shuffles[id]].comm = Pids
        /\ run[shuffles[id]].transferred
        /\ last.op = "barrier" /\ last.res = "ok"

\* The shards add_partition emits for input brick p of the rechunk in hand:
\* (new brick, sub-index, data) of every entry of every message
Emitted(p) ==
    LET msgs == rechunk_shards(Brick(job.old, p), p, split_axes(job.old, job.new))
    IN UNION {{<<e[1], e[2][1], e[2][2]>> : e \in Range(pickle_loads(m.d[2]))} : m \in msgs}

\* The Cartesian product over the axes of the Split lists indexed by p
Planned(p) ==
    LET axes == split_axes(job.old, job.new)
        mine == [a \in DOMAIN axes |-> Range(axes[a][p[a] + 1])]
        ndsplits == {s \in [DOMAIN axes -> UNION Range(mine)] :
                        \A a \in DOMAIN axes : s[a] \in mine[a]}
    IN {<<[a \in DOMAIN s |-> s[a].chunk_index],
          [a \in DOMAIN s |-> s[a].split_index],
          Slice(Brick(job.old, p), [a \in DOMAIN s |-> s[a].slice])>> : s \in ndsplits}

\* The sub-indices of new brick k that input brick p contributes
SubIndices(p, k) == {e[2] : e \in {x \in Emitted(p) : x[1] = k}}

\* The sub-indices found in the file of a new brick
LatticeKeys(data) ==
    LET all == Concat([i \in 1..Len(data) |-> pickle_loads(data[i])])
    IN {all[i][1] : i \in 1..Len(all)}

\* The lattice [0, max + 1) on every axis spanned by a set of sub-indices
Lattice(keys) ==
    Indices([d \in DOMAIN (CHOOSE x \in keys : TRUE) |-> MaxOf({x[d] : x \in keys}) + 1])

\* C24: in a rechunk, the shards add_partition emits for an input brick are
\* exactly the Cartesian product over the axes of the Split lists of that
\* brick and no message repeats a (new brick, sub-index) pair; no two input
\* bricks produce the same pair; the sub-indices of every new brick fill
\* [0, max + 1) on every axis; every Split list is sorted by slice.start; and
\* once the messages of all input bricks contributing to a new brick were
\* received, its file holds the full lattice, so convert_chunk's assertion
\* holds.
C24_SplitPlan ==
    job.kind = "array" =>
        LET axes == split_axes(job.old, job.new)
            inputs == Bricks(job.old)
        IN /\ \A p \in inputs :
                /\ Emitted(p) = Planned(p)
                /\ \A m \in rechunk_shards(Brick(job.old, p), p, axes) :
                      LET es == pickle_loads(m.d[2])
                      IN Cardinality({<<es[i][1], es[i][2][1]>> : i \in DOMAIN es}) = Len(es)
           /\ \A p, q \in inputs, k \in Bricks(job.new) :
                p # q => SubIndices(p, k) \cap SubIndices(q, k) = {}
           /\ \A k \in Bricks(job.new) :
                LET keys == UNION {SubIndices(p, k) : p \in inputs}
                IN keys # {} /\ keys = Lattice(keys)
           /\ \A a \in DOMAIN axes : \A i \in DOMAIN axes[a] :
                \A j \in 1..(Len(axes[a][i]) - 1) :
                    axes[a][i][j].slice.start <= axes[a][i][j + 1].slice.start
           /\ \A k \in Bricks(job.new) :
                (\A p \in inputs :
                    SubIndices(p, k) # {} => p \in job.received[chunk_worker(k)]) =>
                        /\ k \in DOMAIN job.disk
                        /\ LatticeKeys(job.disk[k]) = Lattice(LatticeKeys(job.disk[k]))
                        /\ LatticeKeys(job.disk[k]) = UNION {SubIndices(p, k) : p \in inputs}

\* C24 witness: a 2 x 2 array in two bricks of shape (2, 1) is rechunked to
\* two bricks of shape (1, 2); all input bricks were added and received, and
\* the file of new brick (1, 0) holds the shards (0, 0) and (0, 1)
C24_Witness ==
    /\ job.kind = "array"
    /\ job.old = << <<2>>, <<1, 1>> >> /\ job.new = << <<1, 1>>, <<2>> >>
    /\ job.added = Bricks(job.old) /\ job.wire = {}
    /\ <<1, 0>> \in DOMAIN job.disk
    /\ LatticeKeys(job.disk[<<1, 0>>]) = {<<0, 0>>, <<0, 1>>}

\* The place of worker w in the list workers, from 0
IndexOf(workers, w) == CHOOSE i \in 0..(Len(workers) - 1) : workers[i + 1] = w

\* C25: range sharding gives partition p of npartitions the worker at index
\* floor(len(workers) * p / npartitions), an index in [0, len(workers)) that
\* does not decrease with p; hash sharding gives a brick the worker at index
\* hash(ndindex) mod len(workers), in [0, len(workers)) also for a negative
\* hash; so every partition asked for has one owner, a worker of the list.
C25_WorkerAssignment ==
    /\ job.kind = "range" =>
         \A p \in DOMAIN job.worker_for :
            LET i == (Len(job.workers) * p) \div job.npartitions
            IN /\ i \in 0..(Len(job.workers) - 1)
               /\ job.worker_for[p] = job.workers[i + 1]
               /\ \A q \in DOMAIN job.worker_for :
                     p <= q => IndexOf(job.workers, job.worker_for[p])
                                 <= IndexOf(job.workers, job.worker_for[q])
    /\ job.kind = "hash" =>
         \A idx \in DOMAIN job.worker_for :
            /\ job.worker_for[idx] \in Range(job.workers)
            /\ \E k \in (-MaxHash)..MaxHash :
                  job.hash[idx] = IndexOf(job.workers, job.worker_for[idx])
                                    + k * Len(job.workers)

\* C25 witness: five partitions on three workers are owned by W0, W0, W1, W1,
\* W2
C25_Witness ==
    /\ job.kind = "range" /\ job.npartitions = 5 /\ Len(job.workers) = 3
    /\ DOMAIN job.worker_for = 0..4
    /\ [p \in 0..4 |-> job.worker_for[p][2]] = [p \in 0..4 |-> (3 * p) \div 5]

\* The hash case of C25 happens: a brick whose hash is negative is owned by
\* the last of three workers
C25_NegativeHash ==
    /\ job.kind = "hash" /\ Len(job.workers) = 3
    /\ job.hash[<<0, 1>>] = -1
    /\ <<0, 1>> \in DOMAIN job.worker_for /\ job.worker_for[<<0, 1>>] = <<"W", 2>>

\* The number of elements of a piece of an array
Size(a) == Cardinality(DOMAIN a.at)

\* C26: no shard with zero rows or zero elements is handed to the comm
\* buffer: every message on its way holds data, the per-worker map that
\* split_by_worker returns for an input partition has an entry exactly for
\* the workers some wanted row of the partition goes to, each with at least
\* one row, and the per-worker map of an input brick holds non-empty lists of
\* shards of at least one element each.
C26_NoEmptyShard ==
    /\ job.kind = "table" =>
         LET for == table_worker_for(job.npartitions, job.parts_out)
         IN /\ \A m \in job.wire : Len(deserialize_table(m.d[2])) > 0
            /\ \A i \in DOMAIN job.inputs :
                  LET out == split_by_worker(job.inputs[i], for).out
                  IN /\ \A w \in DOMAIN out : Len(out[w]) > 0
                     /\ DOMAIN out =
                           {for[job.inputs[i][n]._partitions] :
                              n \in {x \in DOMAIN job.inputs[i] :
                                       job.inputs[i][x]._partitions \in job.parts_out}}
    /\ job.kind = "array" =>
         /\ \A m \in job.wire :
               LET es == pickle_loads(m.d[2])
               IN es # <<>> /\ \A n \in DOMAIN es : Size(es[n][2][2]) > 0
         /\ \A p \in Bricks(job.old) :
               \A m \in rechunk_shards(Brick(job.old, p), p, split_axes(job.old, job.new)) :
                  LET es == pickle_loads(m.d[2])
                  IN es # <<>> /\ \A n \in DOMAIN es : Size(es[n][2][2]) > 0

\* C26 witness: an input partition whose two rows both go to output partition
\* 0 was added in a shuffle to three output partitions on two workers: one
\* message, to W0, and none to W1
C26_Witness ==
    /\ job.kind = "table" /\ job.npartitions = 3 /\ job.parts_out = {0, 1, 2}
    /\ job.inputs = << <<TableRow(0), TableRow(0)>> >>
    /\ job.added = {0}
    /\ job.wire = {[to |-> "W0", d |-> <<0, serialize_table(<<TableRow(0), TableRow(0)>>)>>]}

\* C27: a lookup that resumes from a scheduler reply with status error (the
\* scheduler has no such shuffle) raises, ends the operation, creates no run
\* and leaves the registry and the live-run set as they are.
C27_UnknownShuffle ==
    [][\A t \in Slots :
          (Resumed(t) /\ tasks[t].reply = 0) =>
              /\ last'.res = "unknown" /\ last'.op = tasks[t].op
              /\ tasks'[t] = Idle
              /\ UNCHANGED <<shuffles, _runs, run>>]_vars

\* C27 witness: a shuffle_receive for a shuffle the scheduler does not have
\* has failed, and the worker has no run
C27_Witness ==
    /\ last.op = "shuffle_receive" /\ last.res = "unknown" /\ last.id = "A"
    /\ sched["A"] = 0
    /\ run = <<>> /\ _runs = {} /\ shuffles["A"] = 0

\* The shuffle_receive handlers that have forwarded a payload of producer p
\* to the grouping and the disk write of run object o, and await them
Forwarding(o, p) ==
    {t \in Slots : /\ tasks[t].op = "shuffle_receive" /\ tasks[t].obj = o
                   /\ tasks[t].pc \in {"offload", "disk"}
                   /\ \E row \in Range(Concat(tasks[t].data)) : row.src = p}

\* The producers of a batch
Producers(data) == {data[i][1] : i \in DOMAIN data}

\* C28: of the shuffle_receive handlers in flight for a run at most one has
\* forwarded the payload of a producer to grouping and disk, and while it
\* awaits them nothing of that producer is on disk; a row of a producer is on
\* disk at most once; and a handler that resumes with a batch of producers
\* whose payloads other handlers in flight have forwarded returns without
\* forwarding anything and without a write to disk.
C28_ConcurrentDedup ==
    /\ [](\A o \in DOMAIN run, p \in Pids :
            /\ Cardinality(Forwarding(o, p)) <= 1
            /\ \A k \in LocalParts :
                  LET on_disk == SelectSeq(run[o].disk[k], LAMBDA row : row.src = p)
                  IN /\ Len(on_disk) <= 1
                     /\ Forwarding(o, p) # {} => on_disk = <<>>)
    /\ [][\A t \in Slots :
            LET tk == tasks[t]
                o == shuffles[tk.id]
            IN (/\ Resumed(t) /\ tk.op = "shuffle_receive" /\ o # 0
                /\ \A p \in Producers(tk.data) : Forwarding(o, p) \ {t} # {}) =>
                   /\ tasks'[t] = Idle
                   /\ \A x \in DOMAIN run : run'[x].disk = run[x].disk]_vars

\* C28 witness: while one handler awaits the disk write of producer 0's
\* payload, a second handler carrying producer 0 has returned
C28_Witness ==
    \E o \in DOMAIN run, t \in Slots :
        /\ Forwarding(o, 0) = {t} /\ tasks[t].pc = "disk"
        /\ run[o].again # {}
        /\ last.op = "shuffle_receive" /\ last.res = "ok" /\ last.obj = o

\* In the step taken, get_output_partition handler t returns output partition
\* k of run object o with the rows data
Returned(t, o, k, data) ==
    /\ tasks[t].op = "get_output_partition" /\ tasks[t].obj = o /\ tasks[t].part = k
    /\ tasks'[t] = Idle /\ last'.res = "ok"
    /\ \/ tasks[t].pc = "convert" /\ data = tasks[t].data[1]
       \/ tasks[t].pc = "flush_receive" /\ data = <<>>

\* C29: get_output_partition never returns an output partition that lacks a
\* row of the first payload of a producer contained in `received`.
C29_NoIncompleteOutput ==
    [][\A t \in Slots, o \in DOMAIN run, k \in LocalParts :
          \A data \in {<<>>} \cup {tasks[t].data[i] : i \in DOMAIN tasks[t].data} :
             Returned(t, o, k, data) =>
                \A p \in run[o].received :
                    Range(RowsFor(run[o].first[p], k)) \subseteq Range(data)]_vars

\* Run object o was created for run_id rid of shuffle id
CreatedFor(o, id, rid) == run[o].id = id /\ run[o].run_id = rid

\* C30: a lookup that resumes with the scheduler's reply run_id while a run
\* object for that run_id of the shuffle exists already (created by a caller
\* that was suspended on the scheduler with it and got the same answer), on an
\* open plugin whose registry holds nothing newer, creates no run object and
\* goes on with the existing one, which is the registered one.
C30_ConcurrentCreation ==
    [][\A t \in Slots, o \in DOMAIN run :
          (/\ _refresh_shuffle_resume(t)
           /\ ~closed
           /\ CreatedFor(o, tasks[t].id, tasks[t].reply)
           /\ shuffles[tasks[t].id] # 0 =>
                 run[shuffles[tasks[t].id]].run_id <= tasks[t].reply) =>
              /\ Len(run') = Len(run)
              /\ shuffles'[tasks[t].id] = o]_vars

\* Run object n is installed in the registry as the run of shuffle id
Installed(id, n) == shuffles'[id] = n /\ n # 0 /\ shuffles[id] # n

\* C31: the run_ids installed in the registry for one shuffle are strictly
\* increasing: a step that installs a run installs one whose run_id is
\* greater than that of every run installed for the shuffle before, those
\* removed by shuffle_fail included.
C31_MonotonicRunIds ==
    [][\A id \in ShuffleIds, n \in DOMAIN run' :
          Installed(id, n) =>
              \A o \in DOMAIN run :
                  run[o].id = id => run[o].run_id < run'[n].run_id]_vars

\* C32: every registered run is in _runs; a run in _runs that is not
\* registered has exactly one close task, scheduled or running; no run is
\* scheduled for close more than once, and no close removes from _runs a run
\* that is not in it.
C32_Bookkeeping ==
    /\ \A id \in ShuffleIds : shuffles[id] # 0 => shuffles[id] \in _runs
    /\ \A o \in _runs :
          ~Registered(o) =>
              run[o].n_close = 1 /\ run[o].close_task \in {"scheduled", "closing"}
    /\ \A o \in DOMAIN run :
          run[o].n_close <= 1 /\ run[o].close_task # "keyerror"

\* A run that shuffle_fail removed was closed and has left _runs, and a later
\* run of the shuffle, which teardown removed from the registry, is in _runs
\* with its one close task scheduled
C32_Witness ==
    \E o1, o2 \in DOMAIN run :
        /\ run[o1].close_task = "done" /\ run[o1].exception = "failed"
        /\ o1 \notin _runs
        /\ closed /\ o2 \in _runs /\ ~Registered(o2)
        /\ run[o2].close_task = "scheduled" /\ run[o2].n_close = 1

\* C33: in every state between two steps of the event loop, a closed plugin
\* has an empty registry, and a closed plugin stays closed: from teardown on
\* the registry is empty for good.
C33_ClosedRegistryEmpty ==
    /\ [](closed => \A id \in ShuffleIds : shuffles[id] = 0)
    /\ [][closed => closed']_vars

\* teardown took a run out of the registry, and a handler that was suspended
\* on the scheduler meanwhile has resumed with a run_id and was refused
C33_Witness ==
    /\ closed
    /\ last.op \in {"shuffle_receive", "add_partition"}
    /\ last.res = "closed" /\ last.obj = 0
    /\ \E o \in DOMAIN run : run[o].n_close = 1 /\ run[o].exception = None

====
